---- MODULE Spec2Model ----
(***************************************************************************)
(* Model of the subvita diabetes-risk pipeline and API.                    *)
(*                                                                         *)
(*  - stage 03 (03_standardize.py): sentinel normalization                 *)
(*  - stage 04 (04_merge.py): left joins of the standardized tables        *)
(*  - stage 05 (05_features_labels.py): strict cohort, derived features,   *)
(*    labels and evidence flags                                            *)
(*  - serving (api/v1/routes.py, api/services/model_registry.py):          *)
(*    compute_derived_fields and ModelBundle.build_X                       *)
(*                                                                         *)
(* Values.  A nullable cell is a tuple: <<>> is null (None / NaN / pd.NA), *)
(* a number is the exact rational <<n, d>> in lowest terms (d > 0), the    *)
(* float infinity a division by zero yields is <<1, 0>>, a text cell is    *)
(* <<"yes">>, a boolean cell is <<TRUE>>.                                  *)
(***************************************************************************)
EXTENDS Integers, Sequences, FiniteSets, TLC

VARIABLES
    \* stage 03, the Sentinel Normalizer (03_standardize.py)
    series,      \* the column handed to to_null_if_sentinel: [dtype, vals]
    normalized,  \* the column it returned
    renormalized,\* the column a second call, on that result, returned
    pcSent,      \* "idle", "start", "done" or "again"
    name03,      \* the raw table main standardizes: "DEMO", "BPX" or "DIQ"
    raw03,       \* that table: [n, col], n rows, per raw column [present, vals]
    std03,       \* the standardized table: per canonical field its cells
    pc03,        \* "idle", "start", "written" or "failed"
    \* stage 04, the Cohort Assembler (04_merge.py)
    base,        \* GLU_std, the base table: a sequence of [SEQN, cell]
    others,      \* the other standardized tables, in the order they are joined
    df04,        \* main's df: the frame joined so far
    k04,         \* how many of the others have been joined
    pc04,        \* "idle", "joining", "written" or "failed"
    out04,       \* the table written to model_a_merged.parquet
    warned04,    \* whether the duplicate-SEQN warning was printed
    \* stage 05, the Feature Engineer and Label Deriver (05_features_labels.py)
    merged,      \* the table read from model_a_merged.parquet
    cols,        \* the optional columns that table has
    pc05,        \* "idle", "start", "written" or "failed"
    labeled,     \* the table written to model_a_features_labels.parquet
    \* serving (api/v1/routes.py, api/services/model_registry.py)
    request,     \* the request body as received (req.model_dump())
    payload,     \* the dict compute_derived_fields works on, in place
    pcDerive,    \* "idle", "start" or "done"
    feature_list,\* ModelBundle.feature_list, the frozen feature list
    items,       \* build_X's payload: the dict's (key, value) pairs in key order
    X,           \* the frame build_X returned: [columns, row]
    pcRow,       \* "idle", "start" or "built"
    \* the service (api/app.py, api/v1/routes.py, api/services/model_registry.py)
    artifacts,   \* per disease, the files its ModelSpec points at
    specs,       \* ModelRegistry.specs: the configured diseases, in dict order
    bundles,     \* ModelRegistry.bundles: [disease, bundle] in dict order
    pcApp,       \* "idle", "loading", "serving" or "crashed"
    reqs,        \* per request: [pc, body, payload, response]
    lastGet,     \* the outcome of the last direct call of ModelRegistry.get
    \* stages 06 and 07 (06_split_export.py, 07_train_model.py)
    columns06,   \* df.columns of model_a_features_labels.parquet, in order
    X_train,     \* the columns of splits/X_train.parquet, in order
    split_feature_list, \* splits/feature_list.json
    model_feature_list, \* models/feature_list.json, next to the scorer
    pc06,        \* "idle", "start", "split", "trained" or "failed"
    \* persistence (api/services/persistence.py, db/models.py, create_db.py)
    db_created,  \* whether create_db.py has created the tables
    users,       \* the committed rows of table users: their ids
    runs,        \* the committed rows of table prediction_runs
    calls        \* per HTTP call: [kind, pc, header, body, ...]

sentVars == <<series, normalized, renormalized, pcSent>>

stdVars == <<name03, raw03, std03, pc03>>

joinVars == <<base, others, df04, k04, pc04, out04, warned04>>

featVars == <<merged, cols, pc05, labeled>>

deriveVars == <<request, payload, pcDerive>>

rowVars == <<feature_list, items, X, pcRow>>

serveVars == <<artifacts, specs, bundles, pcApp, reqs, lastGet>>

splitVars ==
    <<columns06, X_train, split_feature_list, model_feature_list, pc06>>

storeVars == <<db_created, users, runs, calls>>

vars ==
    <<sentVars, stdVars, joinVars, featVars, deriveVars, rowVars, serveVars,
      splitVars, storeVars>>

(***************************************************************************)
(* Nullable numbers                                                        *)
(***************************************************************************)
NA == <<>>

INF == <<1, 0>>

RECURSIVE Gcd(_, _)
Gcd(a, b) == IF b = 0 THEN a ELSE Gcd(b, a % b)

Rat(n, d) == LET g == Gcd(n, d) IN <<n \div g, d \div g>>

Num(n) == <<n, 1>>

\* float multiplication of two finite non-negative numbers; null propagates
Mul(a, b) == IF a = NA \/ b = NA THEN NA ELSE Rat(a[1] * b[1], a[2] * b[2])

\* pandas (numpy float) division: x/0 is inf, 0/0 is NaN (null), null propagates
Div(a, b) ==
    IF a = NA \/ b = NA THEN NA
    ELSE IF b[1] = 0 THEN (IF a[1] = 0 THEN NA ELSE INF)
    ELSE Rat(a[1] * b[2], a[2] * b[1])

\* subtraction of two finite numbers; null propagates
Sub(a, b) ==
    IF a = NA \/ b = NA THEN NA
    ELSE Rat(a[1] * b[2] - b[1] * a[2], a[2] * b[2])

\* x >= n/d for a present finite x; a comparison with null is False
Geq(x, n, d) == x # NA /\ x[1] * d >= n * x[2]

Lt(x, n, d) == x # NA /\ x[1] * d < n * x[2]

(***************************************************************************)
(* Stage 05: 05_features_labels.py                                         *)
(***************************************************************************)
\* variant: HbA1c required too
required_with_a1c ==
    <<"fasting_glucose_mg_dL", "triglycerides_mg_dL", "hdl_mg_dL", "age_years",
      "sex_at_birth", "waist_circumference_cm", "systolic_bp_mmHg",
      "diastolic_bp_mmHg", "hba1c_percent">>

required_for_strict ==
    <<"fasting_glucose_mg_dL", "triglycerides_mg_dL", "hdl_mg_dL", "age_years",
      "sex_at_birth", "waist_circumference_cm", "systolic_bp_mmHg",
      "diastolic_bp_mmHg">>

Required == {required_for_strict[i] : i \in 1..Len(required_for_strict)}

OptionalCols ==
    {"bmi", "height_cm", "weight_kg", "total_cholesterol_mg_dL",
     "tg_to_hdl_ratio", "non_hdl_chol_mg_dL", "diabetes_self_report",
     "on_insulin_now", "on_diabetes_pills_now"}

\* df.get(c): the cell of column c, null when the table has no such column
Col(cs, r, c) == IF c \in cs \/ c \notin OptionalCols THEN r[c] ELSE NA

\* pd.read_parquet gives a RangeIndex: row i of the file has index label i-1
Indexed(tbl) == [i \in 1..Len(tbl) |-> [idx |-> i - 1] @@ tbl[i]]

IsComplete(r) == \A c \in Required : r[c] # NA

\* df.dropna(subset=required_for_strict): rows keep their index labels
StrictCohort(tbl) == SelectSeq(Indexed(tbl), IsComplete)

\* lines 45-53: bmi is computed only where it is null, without a height > 0 test
BulkBmi(cs, df, r) ==
    LET bmi0(x) == Col(cs, x, "bmi")
        anyNa   == \E i \in 1..Len(df) : bmi0(df[i]) = NA
        h_m     == Div(r.height_cm, Num(100))
    IN  IF /\ anyNa
           /\ {"height_cm", "weight_kg"} \subseteq cs
           /\ bmi0(r) = NA /\ h_m # NA /\ r.weight_kg # NA
        THEN Div(r.weight_kg, Mul(h_m, h_m))
        ELSE bmi0(r)

\* line 56: assigned unconditionally
BulkRatio(cs, df, r) == Div(r.triglycerides_mg_dL, r.hdl_mg_dL)

\* lines 59-62: assigned unconditionally, from the table-level any()
BulkNonHdl(cs, df, r) ==
    IF /\ "total_cholesterol_mg_dL" \in cs
       /\ \E i \in 1..Len(df) : df[i].total_cholesterol_mg_dL # NA
    THEN Sub(r.total_cholesterol_mg_dL, r.hdl_mg_dL)
    ELSE NA

\* lines 65-67: with both columns absent the expression is the Python bool
\* False, which has no .map: AttributeError
MedsFlagRaises(cs) ==
    "on_insulin_now" \notin cs /\ "on_diabetes_pills_now" \notin cs

CombinedMedsFlag(cs, r) ==
    IF \/ Col(cs, r, "on_insulin_now") = <<"yes">>
       \/ Col(cs, r, "on_diabetes_pills_now") = <<"yes">>
    THEN <<"yes">> ELSE <<"no">>

diabetes_by_a1c(r) == r.hba1c_percent # NA /\ Geq(r.hba1c_percent, 13, 2)

\* variant: strict comparison at the 126 mg/dL threshold
diabetes_by_glu_strict(r) ==
    r.fasting_glucose_mg_dL # NA /\ ~Lt(r.fasting_glucose_mg_dL, 127, 1)

diabetes_by_glu(r) ==
    r.fasting_glucose_mg_dL # NA /\ Geq(r.fasting_glucose_mg_dL, 126, 1)

\* line 77 as it enters the | of line 80 (index alignment fills False)
diabetes_by_selfreport(cs, r) ==
    "diabetes_self_report" \in cs /\ r.diabetes_self_report = <<"yes">>

diabetes_by_meds(cs, r) == CombinedMedsFlag(cs, r) = <<"yes">>

diabetes(cs, r) ==
    \/ diabetes_by_a1c(r) \/ diabetes_by_glu(r)
    \/ diabetes_by_selfreport(cs, r) \/ diabetes_by_meds(cs, r)

prediabetes_by_a1c(r) ==
    /\ r.hba1c_percent # NA
    /\ Geq(r.hba1c_percent, 57, 10) /\ Lt(r.hba1c_percent, 13, 2)

prediabetes_by_glu(r) ==
    /\ r.fasting_glucose_mg_dL # NA
    /\ Geq(r.fasting_glucose_mg_dL, 100, 1) /\ Lt(r.fasting_glucose_mg_dL, 126, 1)

prediabetes(cs, r) ==
    ~diabetes(cs, r) /\ (prediabetes_by_a1c(r) \/ prediabetes_by_glu(r))

\* variant: the two .loc assignments swapped and the (~diabetes) mask dropped
label_prediabetes_last(cs, r) ==
    LET l0 == 0
        l2 == IF diabetes(cs, r) THEN 2 ELSE l0
    IN  IF prediabetes_by_a1c(r) \/ prediabetes_by_glu(r) THEN 1 ELSE l2

\* lines 87-89: 0, then 1 where prediabetes, then 2 where diabetes
label_t2d_status(cs, r) ==
    LET l0 == 0
        l1 == IF prediabetes(cs, r) THEN 1 ELSE l0
    IN  IF diabetes(cs, r) THEN 2 ELSE l1

\* line 94: df["diabetes_by_selfreport"] = <Series>.  With the column present
\* the Series carries df's index.  With the column absent it is built from
\* pd.Series(["unknown"] * len(df)), whose index is 0..len(df)-1, and the
\* assignment aligns it on df's index: a kept row whose label is >= len(df)
\* receives NaN.
SelfReportFlagCell(cs, df, r) ==
    IF "diabetes_self_report" \in cs
    THEN <<r.diabetes_self_report = <<"yes">> >>
    ELSE IF r.idx < Len(df) THEN <<FALSE>> ELSE NA

FeatureLabelRow(cs, df, r) ==
    [bmi                      |-> BulkBmi(cs, df, r),
     tg_to_hdl_ratio          |-> BulkRatio(cs, df, r),
     non_hdl_chol_mg_dL       |-> BulkNonHdl(cs, df, r),
     on_glucose_lowering_meds |-> CombinedMedsFlag(cs, r),
     label_t2d_status         |-> label_t2d_status(cs, r),
     diabetes_by_a1c          |-> <<diabetes_by_a1c(r)>>,
     diabetes_by_glucose      |-> <<diabetes_by_glu(r)>>,
     diabetes_by_selfreport   |-> SelfReportFlagCell(cs, df, r),
     diabetes_by_meds         |-> <<diabetes_by_meds(cs, r)>>,
     prediabetes_by_a1c       |-> <<prediabetes_by_a1c(r)>>,
     prediabetes_by_glucose   |-> <<prediabetes_by_glu(r)>>] @@ r

FeaturesLabelsTable(cs, tbl) ==
    LET df == StrictCohort(tbl)
    IN  [i \in 1..Len(df) |-> FeatureLabelRow(cs, df, df[i])]

\* main(): read, filter, derive, label, write; an exception writes nothing
FeaturesLabelsMain ==
    /\ pc05 = "start"
    /\ IF MedsFlagRaises(cols)
       THEN /\ pc05' = "failed"
            /\ labeled' = <<>>
       ELSE /\ pc05' = "written"
            /\ labeled' = FeaturesLabelsTable(cols, merged)
    /\ UNCHANGED <<splitVars, storeVars, serveVars, merged, cols, sentVars, stdVars, joinVars, deriveVars, rowVars>>

(***************************************************************************)
(* Serving: compute_derived_fields (api/v1/routes.py)                      *)
(***************************************************************************)
DerivedFields == {"bmi", "tg_to_hdl_ratio", "non_hdl_chol_mg_dL"}

\* variant: the height is rewritten in metres when bmi is computed
compute_derived_fields_metres(p) ==
    LET hdl == p.hdl_mg_dL
        tg  == p.triglycerides_mg_dL
        p1  == IF /\ p.tg_to_hdl_ratio = NA
                  /\ hdl # NA /\ hdl # Num(0) /\ tg # NA
               THEN [p EXCEPT !.tg_to_hdl_ratio = Div(tg, hdl)]
               ELSE p
        tc  == p1.total_cholesterol_mg_dL
        p2  == IF p1.non_hdl_chol_mg_dL = NA /\ tc # NA /\ p1.hdl_mg_dL # NA
               THEN [p1 EXCEPT !.non_hdl_chol_mg_dL = Sub(tc, p1.hdl_mg_dL)]
               ELSE p1
        ht  == p2.height_cm
        wt  == p2.weight_kg
        h_m == Div(ht, Num(100))
    IN  IF p2.bmi = NA /\ ht # NA /\ wt # NA /\ ht[1] > 0
        THEN [p2 EXCEPT !.bmi = Div(wt, Mul(h_m, h_m)), !.height_cm = h_m]
        ELSE p2

compute_derived_fields(p) ==
    LET hdl == p.hdl_mg_dL
        tg  == p.triglycerides_mg_dL
        p1  == IF /\ p.tg_to_hdl_ratio = NA
                  /\ hdl # NA /\ hdl # Num(0) /\ tg # NA
               THEN [p EXCEPT !.tg_to_hdl_ratio = Div(tg, hdl)]
               ELSE p
        tc  == p1.total_cholesterol_mg_dL
        p2  == IF p1.non_hdl_chol_mg_dL = NA /\ tc # NA /\ p1.hdl_mg_dL # NA
               THEN [p1 EXCEPT !.non_hdl_chol_mg_dL = Sub(tc, p1.hdl_mg_dL)]
               ELSE p1
        ht  == p2.height_cm
        wt  == p2.weight_kg
        h_m == Div(ht, Num(100))
    IN  IF p2.bmi = NA /\ ht # NA /\ wt # NA /\ ht[1] > 0
        THEN [p2 EXCEPT !.bmi = Div(wt, Mul(h_m, h_m))]
        ELSE p2

\* the handler's derivation step: the request dict is updated in place
DeriveRequest ==
    /\ pcDerive = "start"
    /\ payload' = compute_derived_fields(payload)
    /\ pcDerive' = "done"
    /\ UNCHANGED <<splitVars, storeVars, serveVars, request, sentVars, stdVars, joinVars, featVars, rowVars>>

(***************************************************************************)
(* Serving: ModelBundle.build_X (api/services/model_registry.py)           *)
(***************************************************************************)
\* payload.get(k, None) on the dict whose (key, value) pairs are its
HasKey(its, k) == \E i \in 1..Len(its) : its[i][1] = k

DictGet(its, k) ==
    IF HasKey(its, k)
    THEN its[CHOOSE i \in 1..Len(its) : its[i][1] = k][2]
    ELSE NA

\* variant: the row is laid out in the payload's key order
build_X_payload_order(fl, its) ==
    LET InList(it) == \E i \in 1..Len(fl) : fl[i] = it[1]
        kept == SelectSeq(its, InList)
    IN  [columns |-> [i \in 1..Len(kept) |-> kept[i][1]],
         row     |-> [i \in 1..Len(kept) |-> kept[i][2]]]

\* row = {col: payload.get(col, None) for col in feature_list};
\* pd.DataFrame([row], columns=feature_list)
build_X(fl, its) ==
    [columns |-> fl,
     row     |-> [i \in 1..Len(fl) |-> DictGet(its, fl[i])]]

\* predict_proba's first step
BuildRow ==
    /\ pcRow = "start"
    /\ X' = build_X(feature_list, items)
    /\ pcRow' = "built"
    /\ UNCHANGED <<splitVars, storeVars, serveVars, feature_list, items,
                   sentVars, stdVars, joinVars, featVars, deriveVars>>

(***************************************************************************)
(* Serving: the registry, startup and /v1/predict/t2d                      *)
(***************************************************************************)
\* dicts keyed by disease, as [disease, bundle] entries in insertion order
Keys(d) == [i \in 1..Len(d) |-> d[i].disease]

HasDisease(d, x) == \E i \in 1..Len(d) : d[i].disease = x

Lookup(d, x) == d[CHOOSE i \in 1..Len(d) : d[i].disease = x].bundle

\* d[x] = b: an existing key keeps its place
DictPut(d, x, b) ==
    IF HasDisease(d, x)
    THEN [i \in 1..Len(d) |->
            IF d[i].disease = x THEN [disease |-> x, bundle |-> b] ELSE d[i]]
    ELSE Append(d, [disease |-> x, bundle |-> b])

\* ModelRegistry.__init__: {s.disease: s for s in specs}, the keys
RECURSIVE SpecsDict(_)
SpecsDict(specList) ==
    IF specList = <<>> THEN <<>>
    ELSE LET init == SpecsDict(SubSeq(specList, 1, Len(specList) - 1))
             last == specList[Len(specList)]
         IN  IF \E i \in 1..Len(init) : init[i] = last THEN init
             ELSE Append(init, last)

TopN == 10

NotesN == 5

\* sort_values("importance_mean", ascending=False)["feature"].head(10)
TopFeatures(rows) ==
    LET n == Len(rows)
        order == CHOOSE f \in [1..n -> 1..n] :
                    /\ \A i, j \in 1..n : f[i] = f[j] => i = j
                    /\ \A i, j \in 1..n : i < j =>
                          rows[f[i]].importance_mean >=
                              rows[f[j]].importance_mean
    IN  [i \in 1..(IF n < TopN THEN n ELSE TopN) |-> rows[order[i]].feature]

\* ModelBundle.__init__: joblib.load and read_text raise on a missing or
\* unreadable file; the two lists are read and kept as they are
ModelBundle(art) ==
    [raised |-> ~art.readable,
     bundle |-> [model |-> art.model,
                 feature_list |-> art.feature_list,
                 global_top_features |->
                     IF art.importance.exists
                     THEN TopFeatures(art.importance.rows) ELSE <<>>]]

NoBundle == [model |-> <<>>, feature_list |-> <<>>, global_top_features |-> <<>>]

NoError == [disease |-> "", available |-> <<>>]

\* variant: the error names no registered disease
get_no_listing(bs, disease) ==
    IF ~HasDisease(bs, disease)
    THEN [raised |-> TRUE, bundle |-> NoBundle,
          error |-> [disease |-> disease, available |-> <<>>]]
    ELSE [raised |-> FALSE, bundle |-> Lookup(bs, disease), error |-> NoError]

\* ModelRegistry.get: KeyError("Unknown disease '<d>'. Available: <keys>")
get(bs, disease) ==
    IF ~HasDisease(bs, disease)
    THEN [raised |-> TRUE, bundle |-> NoBundle,
          error |-> [disease |-> disease, available |-> Keys(bs)]]
    ELSE [raised |-> FALSE, bundle |-> Lookup(bs, disease), error |-> NoError]

\* the fields of PredictRequestT2D that the model follows, in model_dump order
RequestFields ==
    <<"age_years", "sex_at_birth", "height_cm", "weight_kg", "bmi",
      "waist_circumference_cm", "systolic_bp_mmHg", "diastolic_bp_mmHg",
      "fasting_glucose_mg_dL", "triglycerides_mg_dL", "hdl_mg_dL",
      "total_cholesterol_mg_dL", "hba1c_percent", "tg_to_hdl_ratio",
      "non_hdl_chol_mg_dL">>

\* a dict's (key, value) pairs
ItemsOf(p) ==
    [i \in 1..Len(RequestFields) |-> <<RequestFields[i], p[RequestFields[i]]>>]

\* the scorer is a fixed function of the row: the row's class picks the
\* probabilities from the fitted model's table
ScoreKey(Xrow) == Cardinality({i \in 1..Len(Xrow.row) : Xrow.row[i] # NA}) % 2

\* int(proba.argmax()): the first index of the largest probability
argmax(proba) ==
    CHOOSE i \in 1..Len(proba) :
        /\ \A j \in 1..Len(proba) : ~Lt(proba[i], proba[j][1], proba[j][2])
        /\ \A j \in 1..(i - 1) : Lt(proba[j], proba[i][1], proba[i][2])

\* variant: the class names in alphabetical order
labels_alphabetical == <<"diabetes", "normal", "prediabetes">>

labels == <<"normal", "prediabetes", "diabetes">>

STEPS_CLINICAL ==
    <<"Consider confirming with a clinician: repeat fasting glucose and/or HbA1c.",
      "Discuss lifestyle changes (nutrition, activity) and medication options if indicated.">>

STEPS_FOLLOW_UP ==
    <<"Consider follow-up screening (HbA1c and fasting glucose) within 3-6 months.",
      "Lifestyle changes: increase activity, reduce refined carbs, aim for waist/BMI improvement.">>

STEPS_ROUTINE ==
    <<"Maintain healthy lifestyle habits and routine screening intervals.">>

STEPS_HBA1C ==
    <<"Your HbA1c is in a higher range; consider monitoring trends over time.">>

\* variant: the HbA1c note only on the routine branch
next_steps_t2d_note_in_else(p_diabetes, p_pred, req) ==
    IF Geq(p_diabetes, 1, 2) THEN STEPS_CLINICAL
    ELSE IF Geq(p_pred, 1, 2) THEN STEPS_FOLLOW_UP
    ELSE STEPS_ROUTINE \o
         (IF req.hba1c_percent # NA /\ Geq(req.hba1c_percent, 57, 10)
          THEN STEPS_HBA1C ELSE <<>>)

next_steps_t2d(p_diabetes, p_pred, req) ==
    (IF Geq(p_diabetes, 1, 2) THEN STEPS_CLINICAL
     ELSE IF Geq(p_pred, 1, 2) THEN STEPS_FOLLOW_UP
     ELSE STEPS_ROUTINE)
    \o (IF req.hba1c_percent # NA /\ Geq(req.hba1c_percent, 57, 10)
        THEN STEPS_HBA1C ELSE <<>>)

NoResponse ==
    [status |-> 0, detail |-> NoError, predicted_label |-> "",
     probabilities |-> <<>>, suggested_next_steps |-> <<>>, top_drivers |-> <<>>]

\* HTTPException(status_code=404, detail=str(e))
NotFound(e) == [NoResponse EXCEPT !.status = 404, !.detail = e]

\* unhandled_exception_handler
ServerError == [NoResponse EXCEPT !.status = 500]

\* PredictResponse(...) of predict_t2d
PredictResponse(bundle, proba, body) ==
    [status |-> 200, detail |-> NoError,
     predicted_label |-> labels[argmax(proba)],
     probabilities |-> proba,
     suggested_next_steps |-> next_steps_t2d(proba[3], proba[2], body),
     top_drivers |->
        SubSeq(bundle.global_top_features, 1,
               IF Len(bundle.global_top_features) < NotesN
               THEN Len(bundle.global_top_features) ELSE NotesN)]

\* variant: the application takes requests while the registry is loading
AcceptingWhileLoading == pcApp \in {"loading", "serving"}

\* registry = create_registry() runs while api/app.py is imported: the
\* application exists, and takes requests, once the import has finished
Accepting == pcApp = "serving"

\* create_registry: load_all, one configured disease per step, in dict order;
\* an exception of ModelBundle(spec) ends the import of api/app.py
LoadBundle ==
    /\ pcApp = "loading"
    /\ Len(bundles) < Len(specs)
    /\ LET disease == specs[Len(bundles) + 1]
           res == ModelBundle(artifacts[disease])
       IN  IF res.raised
           THEN pcApp' = "crashed" /\ UNCHANGED bundles
           ELSE /\ bundles' = DictPut(bundles, disease, res.bundle)
                /\ pcApp' = IF Len(bundles') = Len(specs)
                            THEN "serving" ELSE "loading"
    /\ UNCHANGED <<artifacts, specs, reqs, lastGet,
                   sentVars, stdVars, joinVars, featVars, deriveVars, rowVars,
                   splitVars, storeVars>>

\* a call of registry.get by any other caller
RegistryGet ==
    /\ Accepting
    /\ \E disease \in DOMAIN artifacts : lastGet' = get(bundles, disease)
    /\ UNCHANGED <<artifacts, specs, bundles, pcApp, reqs,
                   sentVars, stdVars, joinVars, featVars, deriveVars, rowVars,
                   splitVars, storeVars>>

\* the request reaches predict_t2d (line 93): the body passed validation
Receive(r, body) ==
    /\ Accepting
    /\ reqs[r].pc = "idle"
    /\ reqs' = [reqs EXCEPT ![r] = [@ EXCEPT !.pc = "received", !.body = body]]
    /\ UNCHANGED <<artifacts, specs, bundles, pcApp, lastGet,
                   sentVars, stdVars, joinVars, featVars, deriveVars, rowVars,
                   splitVars, storeVars>>

\* lines 96-99
GetBundle(r) ==
    /\ reqs[r].pc = "received"
    /\ LET res == get(bundles, "t2d")
       IN  reqs' = [reqs EXCEPT ![r] =
                     IF res.raised
                     THEN [@ EXCEPT !.pc = "done",
                                    !.response = NotFound(res.error)]
                     ELSE [@ EXCEPT !.pc = "got"]]
    /\ UNCHANGED <<artifacts, specs, bundles, pcApp, lastGet,
                   sentVars, stdVars, joinVars, featVars, deriveVars, rowVars,
                   splitVars, storeVars>>

\* variant: the handlers derive into one dict they share
DerivedPayloadShared(rs, r) ==
    LET peers == {q \in DOMAIN rs : q # r /\ rs[q].payload # <<>>}
    IN  IF peers = {} THEN compute_derived_fields(rs[r].body)
        ELSE LET q == CHOOSE x \in peers : TRUE
             IN  compute_derived_fields(
                    [f \in DOMAIN rs[r].body |->
                        IF f \in DerivedFields /\ rs[r].body[f] = NA
                        THEN rs[q].payload[f] ELSE rs[r].body[f]])

\* line 101: the dict model_dump made for this request, derived in place
DerivedPayload(rs, r) == compute_derived_fields(rs[r].body)

Derive(r) ==
    /\ reqs[r].pc = "got"
    /\ reqs' = [reqs EXCEPT ![r] =
                  [@ EXCEPT !.pc = "derived",
                            !.payload = DerivedPayload(reqs, r)]]
    /\ UNCHANGED <<artifacts, specs, bundles, pcApp, lastGet,
                   sentVars, stdVars, joinVars, featVars, deriveVars, rowVars,
                   splitVars, storeVars>>

\* lines 102-137. The scorer is given a frame with the bundle's columns; when
\* these are not the columns it was fitted on it either raises or scores
Predict(r) ==
    /\ reqs[r].pc = "derived"
    /\ LET bundle == Lookup(bundles, "t2d")
           Xrow == build_X(bundle.feature_list, ItemsOf(reqs[r].payload))
           proba == bundle.model.table[ScoreKey(Xrow)]
           scored == [reqs EXCEPT ![r] =
                        [@ EXCEPT !.pc = "done",
                                  !.response =
                                     PredictResponse(bundle, proba,
                                                     reqs[r].body)]]
           failed == [reqs EXCEPT ![r] =
                        [@ EXCEPT !.pc = "done", !.response = ServerError]]
       IN  IF bundle.feature_list = bundle.model.trained_on
           THEN reqs' = scored
           ELSE reqs' = scored \/ reqs' = failed
    /\ UNCHANGED <<artifacts, specs, bundles, pcApp, lastGet,
                   sentVars, stdVars, joinVars, featVars, deriveVars, rowVars,
                   splitVars, storeVars>>

(***************************************************************************)
(* Stage 04: 04_merge.py                                                   *)
(***************************************************************************)
\* Series.nunique(): the number of distinct non-null values
nunique(tbl) == Cardinality({tbl[i].SEQN : i \in 1..Len(tbl)} \ {NA})

RECURSIVE Concat(_)
Concat(ss) == IF ss = <<>> THEN <<>> ELSE Head(ss) \o Concat(Tail(ss))

\* base.merge(other, on="SEQN", how="left"): each row of base in order, once
\* per matching row of other, the other's cell appended (null without a match)
Merge(b, o) ==
    LET Matches(k) == SelectSeq(o, LAMBDA r : r.SEQN = k)
        Rows(r) ==
            IF Matches(r.SEQN) = <<>>
            THEN <<[SEQN |-> r.SEQN, cells |-> Append(r.cells, NA)]>>
            ELSE [j \in 1..Len(Matches(r.SEQN)) |->
                    [SEQN  |-> r.SEQN,
                     cells |-> Append(r.cells, Matches(r.SEQN)[j].cell)]]
    IN  Concat([i \in 1..Len(b) |-> Rows(b[i])])

\* variant: the duplicate check left out
left_join_unchecked(b, o) == [raised |-> FALSE, table |-> Merge(b, o)]

left_join(b, o) ==
    IF nunique(o) # Len(o)
    THEN [raised |-> TRUE, table |-> <<>>]
    ELSE [raised |-> FALSE, table |-> Merge(b, o)]

\* lines 41-44: base = glu.copy(); df = base
AsFrame(tbl) == [i \in 1..Len(tbl) |-> [SEQN |-> tbl[i].SEQN, cells |-> <<tbl[i].cell>>]]

\* lines 45-46: one turn of the loop; a ValueError ends the run
JoinStep ==
    /\ pc04 = "joining"
    /\ k04 < Len(others)
    /\ LET res == left_join(df04, others[k04 + 1])
       IN  IF res.raised
           THEN /\ pc04' = "failed"
                /\ UNCHANGED <<df04, k04>>
           ELSE /\ df04' = res.table
                /\ k04' = k04 + 1
                /\ pc04' = "joining"
    /\ UNCHANGED <<splitVars, storeVars, serveVars, base, others, out04, warned04,
                   sentVars, stdVars, featVars, deriveVars, rowVars>>

\* lines 48-82: the columns added at lines 50-64 leave SEQN and the rows alone;
\* the table is written, and only then a duplicate SEQN is reported
WriteMerged ==
    /\ pc04 = "joining"
    /\ k04 = Len(others)
    /\ out04' = df04
    /\ warned04' = (nunique(df04) # Len(df04))
    /\ pc04' = "written"
    /\ UNCHANGED <<splitVars, storeVars, serveVars, base, others, df04, k04,
                   sentVars, stdVars, featVars, deriveVars, rowVars>>

(***************************************************************************)
(* Stage 03: 03_standardize.py                                             *)
(***************************************************************************)
MISSING_SENTINELS == {7, 9, 77, 99, 777, 999, 7777, 9999, 77777, 99999}

\* Series.isin: equality of value (7.0 is in {7}); NaN and text are in nothing
IsIn(v, S) == Len(v) = 2 /\ v[2] = 1 /\ v[1] \in S

\* variant: only the one- and two-digit codes
to_null_if_sentinel_short(s) ==
    IF s.dtype = "numeric"
    THEN [s EXCEPT !.vals = [i \in 1..Len(s.vals) |->
            IF IsIn(s.vals[i], {7, 9, 77, 99}) THEN NA ELSE s.vals[i]]]
    ELSE s

\* variant: only the first reserved code of the column is replaced
to_null_if_sentinel_first_only(s) ==
    IF s.dtype = "numeric"
    THEN [s EXCEPT !.vals = [i \in 1..Len(s.vals) |->
            IF /\ IsIn(s.vals[i], MISSING_SENTINELS)
               /\ \A j \in 1..(i - 1) : ~IsIn(s.vals[j], MISSING_SENTINELS)
            THEN NA ELSE s.vals[i]]]
    ELSE s

to_null_if_sentinel(s) ==
    IF s.dtype = "numeric"
    THEN [s EXCEPT !.vals = [i \in 1..Len(s.vals) |->
            IF IsIn(s.vals[i], MISSING_SENTINELS) THEN NA ELSE s.vals[i]]]
    ELSE s

Normalize ==
    /\ pcSent = "start"
    /\ normalized' = to_null_if_sentinel(series)
    /\ pcSent' = "done"
    /\ UNCHANGED <<splitVars, storeVars, serveVars, series, renormalized,
                   stdVars, joinVars, featVars, deriveVars, rowVars>>

\* the same call on a column that was already normalized
Renormalize ==
    /\ pcSent = "done"
    /\ renormalized' = to_null_if_sentinel(normalized)
    /\ pcSent' = "again"
    /\ UNCHANGED <<splitVars, storeVars, serveVars, series, normalized,
                   stdVars, joinVars, featVars, deriveVars, rowVars>>

\* float addition of two finite numbers
Add(a, b) == Rat(a[1] * b[2] + b[1] * a[2], a[2] * b[2])

\* a raw column as read from parquet, and a column of Python objects
NumericSeries(vals) == [dtype |-> "numeric", vals |-> vals]

ObjectSeries(vals) == [dtype |-> "object", vals |-> vals]

\* Series.map(dict): the dict's value where the cell equals a key, else NaN
SeriesMap(vals, mapping) ==
    [i \in 1..Len(vals) |->
        IF IsIn(vals[i], DOMAIN mapping) THEN <<mapping[vals[i][1]]>> ELSE NA]

fillna(vals, label) ==
    [i \in 1..Len(vals) |-> IF vals[i] = NA THEN <<label>> ELSE vals[i]]

\* variant: the unmapped cells left null
map_sex_no_fill(riagendr) ==
    ObjectSeries(SeriesMap(riagendr.vals, 1 :> "male" @@ 2 :> "female"))

map_sex(riagendr) ==
    ObjectSeries(fillna(SeriesMap(riagendr.vals,
                                  1 :> "male" @@ 2 :> "female"), "unknown"))

map_race_ethnicity(ridreth) ==
    LET mapping == 1 :> "mexican_american" @@ 2 :> "other_hispanic"
                   @@ 3 :> "non_hispanic_white" @@ 4 :> "non_hispanic_black"
                   @@ 6 :> "non_hispanic_asian" @@ 7 :> "other_or_multiracial"
    IN  ObjectSeries(fillna(SeriesMap(ridreth.vals, mapping), "unknown"))

map_pregnancy(ridexprg) ==
    LET mapping == 1 :> "pregnant" @@ 2 :> "not_pregnant"
    IN  ObjectSeries(fillna(SeriesMap(ridexprg.vals, mapping), "unknown"))

map_yes_no_unknown(s) ==
    LET s1 == to_null_if_sentinel(s)
    IN  ObjectSeries(fillna(SeriesMap(s1.vals, 1 :> "yes" @@ 2 :> "no"),
                            "unknown"))

RECURSIVE SumCells(_)
SumCells(cells) ==
    IF cells = <<>> THEN Num(0) ELSE Add(Head(cells), SumCells(Tail(cells)))

\* DataFrame.mean(axis=1, skipna=True) on one row: NaN when every cell is null
RowMean(cells) ==
    LET nonnull == SelectSeq(cells, LAMBDA v : v # NA)
    IN  IF nonnull = <<>> THEN NA
        ELSE Div(SumCells(nonnull), Num(Len(nonnull)))

mean_of_readings(df, cs) ==
    LET existing == SelectSeq(cs, LAMBDA c : df.col[c].present)
        sub == [k \in 1..Len(existing) |->
                   to_null_if_sentinel(
                       NumericSeries(df.col[existing[k]].vals)).vals]
    IN  IF existing = <<>> THEN [i \in 1..df.n |-> NA]
        ELSE [i \in 1..df.n |->
                RowMean([k \in 1..Len(existing) |-> sub[k][i]])]

\* out[canon] is null in every row when the raw column is absent
standardize_table(df, fields) ==
    [c \in fields |->
        IF ~df.col[c].present THEN [i \in 1..df.n |-> NA]
        ELSE to_null_if_sentinel(NumericSeries(df.col[c].vals)).vals]

\* the canonical fields of DEMO and DIQ that main recodes; a raw column is
\* named by the field it is mapped to (for race_ethnicity: the configured
\* column, or RIDRETH1 when that one is absent)
DemoFields == {"sex_at_birth", "race_ethnicity", "pregnancy_status"}

DiqFields == {"diabetes_self_report", "on_insulin_now", "on_diabetes_pills_now"}

systolic_readings == <<"BPXSY1", "BPXSY2">>

diastolic_readings == <<"BPXDI1", "BPXDI2">>

\* main, DEMO: demo[...] raises KeyError on an absent column, demo.get(...)
\* falls back to a column of nulls
StandardizeDemo ==
    /\ pc03 = "start" /\ name03 = "DEMO"
    /\ IF ~raw03.col["sex_at_birth"].present
          \/ ~raw03.col["race_ethnicity"].present
       THEN std03' = <<>> /\ pc03' = "failed"
       ELSE LET demo_std == standardize_table(raw03, DemoFields)
                preg == IF raw03.col["pregnancy_status"].present
                        THEN NumericSeries(raw03.col["pregnancy_status"].vals)
                        ELSE ObjectSeries([i \in 1..raw03.n |-> NA])
            IN  /\ std03' =
                     [demo_std EXCEPT
                        !["sex_at_birth"] =
                            map_sex(to_null_if_sentinel(NumericSeries(
                                raw03.col["sex_at_birth"].vals))).vals,
                        !["race_ethnicity"] =
                            map_race_ethnicity(to_null_if_sentinel(
                                NumericSeries(
                                  raw03.col["race_ethnicity"].vals))).vals,
                        !["pregnancy_status"] =
                            map_pregnancy(to_null_if_sentinel(preg)).vals]
                /\ pc03' = "written"
    /\ UNCHANGED <<splitVars, storeVars, serveVars, name03, raw03,
                   sentVars, joinVars, featVars, deriveVars, rowVars>>

\* main, BPX: one mean per subject and measurement
StandardizeBpx ==
    /\ pc03 = "start" /\ name03 = "BPX"
    /\ std03' = [systolic_bp_mmHg |->
                    mean_of_readings(raw03, systolic_readings),
                 diastolic_bp_mmHg |->
                    mean_of_readings(raw03, diastolic_readings)]
    /\ pc03' = "written"
    /\ UNCHANGED <<splitVars, storeVars, serveVars, name03, raw03,
                   sentVars, joinVars, featVars, deriveVars, rowVars>>

\* main, DIQ: a flag is recoded only when its raw column is in the table
StandardizeDiq ==
    /\ pc03 = "start" /\ name03 = "DIQ"
    /\ LET diq_std == standardize_table(raw03, DiqFields)
       IN  std03' =
             [c \in DiqFields |->
                IF raw03.col[c].present
                THEN map_yes_no_unknown(NumericSeries(raw03.col[c].vals)).vals
                ELSE diq_std[c]]
    /\ pc03' = "written"
    /\ UNCHANGED <<splitVars, storeVars, serveVars, name03, raw03,
                   sentVars, joinVars, featVars, deriveVars, rowVars>>

(***************************************************************************)
(* Stages 06 and 07: 06_split_export.py, 07_train_model.py                 *)
(***************************************************************************)
\* variant: only the evidence flags are held back
LEAKAGE_COLS_flags_only ==
    <<"diabetes_by_a1c", "diabetes_by_glucose", "diabetes_by_selfreport",
      "diabetes_by_meds", "prediabetes_by_a1c", "prediabetes_by_glucose">>

LEAKAGE_COLS ==
    <<"diabetes_by_a1c", "diabetes_by_glucose", "diabetes_by_selfreport",
      "diabetes_by_meds", "prediabetes_by_a1c", "prediabetes_by_glucose",
      "diabetes_self_report", "on_insulin_now", "on_diabetes_pills_now",
      "on_glucose_lowering_meds">>

META_COLS == <<"SEQN">>

Range(q) == {q[i] : i \in DOMAIN q}

\* no file at the path
NoFile == <<"no file">>

\* 06 main, lines 46-53
feature_cols(columns) ==
    LET drop_cols == Range(LEAKAGE_COLS \o META_COLS \o <<"label_t2d_status">>)
    IN  SelectSeq(columns, LAMBDA c : c \notin drop_cols)

\* 06 main: a table without the label raises ValueError; otherwise the
\* feature frame is split and saved and the list of its columns written
SplitExport ==
    /\ pc06 = "start"
    /\ IF "label_t2d_status" \notin Range(columns06)
       THEN /\ pc06' = "failed"
            /\ UNCHANGED <<X_train, split_feature_list>>
       ELSE /\ X_train' = feature_cols(columns06)
            /\ split_feature_list' = feature_cols(columns06)
            /\ pc06' = "split"
    /\ UNCHANGED <<columns06, model_feature_list, storeVars, serveVars,
                   sentVars, stdVars, joinVars, featVars, deriveVars, rowVars>>

\* 07 main, lines 41-50 and 142-144: the list read from the split directory
\* (the training frame's columns when there is no such file) is written
\* next to the scorer
TrainModel ==
    /\ pc06 = "split"
    /\ LET fl == IF split_feature_list # NoFile
                 THEN split_feature_list ELSE X_train
       IN  /\ X_train' = fl
           /\ model_feature_list' = fl
    /\ pc06' = "trained"
    /\ UNCHANGED <<columns06, split_feature_list, storeVars, serveVars,
                   sentVars, stdVars, joinVars, featVars, deriveVars, rowVars>>

(***************************************************************************)
(* A component that takes no part in a specification is idle               *)
(***************************************************************************)
IdleSent ==
    /\ series = <<>> /\ normalized = <<>> /\ renormalized = <<>>
    /\ pcSent = "idle"

IdleStd == name03 = "" /\ raw03 = <<>> /\ std03 = <<>> /\ pc03 = "idle"

IdleServe ==
    /\ artifacts = <<>> /\ specs = <<>> /\ bundles = <<>>
    /\ pcApp = "idle" /\ reqs = <<>> /\ lastGet = <<>>

IdleSplit ==
    /\ columns06 = <<>> /\ X_train = <<>> /\ split_feature_list = <<>>
    /\ model_feature_list = <<>> /\ pc06 = "idle"

IdleStore == db_created = FALSE /\ users = {} /\ runs = <<>> /\ calls = <<>>

IdleJoin ==
    /\ base = <<>> /\ others = <<>> /\ df04 = <<>> /\ k04 = 0
    /\ pc04 = "idle" /\ out04 = <<>> /\ warned04 = FALSE

IdleFeat == merged = <<>> /\ cols = {} /\ pc05 = "idle" /\ labeled = <<>>

IdleDerive == request = <<>> /\ payload = <<>> /\ pcDerive = "idle"

IdleRow == feature_list = <<>> /\ items = <<>> /\ X = <<>> /\ pcRow = "idle"

(***************************************************************************)
(* Inputs of the feature and label checks                                  *)
(***************************************************************************)
ABSENT == <<"absent">>

\* a complete record of the strict cohort with nothing optional supplied
BaseRow ==
    [fasting_glucose_mg_dL   |-> Num(90),
     triglycerides_mg_dL     |-> Num(80),
     hdl_mg_dL               |-> Num(40),
     age_years               |-> Num(50),
     sex_at_birth            |-> <<"male">>,
     waist_circumference_cm  |-> Num(90),
     systolic_bp_mmHg        |-> Num(120),
     diastolic_bp_mmHg       |-> Num(80),
     hba1c_percent           |-> NA,
     diabetes_self_report    |-> <<"no">>,
     on_insulin_now          |-> <<"no">>,
     on_diabetes_pills_now   |-> <<"no">>,
     height_cm               |-> NA,
     weight_kg               |-> NA,
     bmi                     |-> NA,
     total_cholesterol_mg_dL |-> NA,
     tg_to_hdl_ratio         |-> NA,
     non_hdl_chol_mg_dL      |-> NA]

\* a choice of cells (ABSENT: the table has no such column) laid over BaseRow
RowOf(c) ==
    [f \in DOMAIN BaseRow |->
        IF f \in DOMAIN c THEN (IF c[f] = ABSENT THEN NA ELSE c[f])
        ELSE BaseRow[f]]

ColsOf(c) == {f \in OptionalCols : f \in DOMAIN c => c[f] # ABSENT}

DeriveInputs ==
    [height_cm               : {ABSENT, NA, Num(0), Num(200)},
     weight_kg               : {ABSENT, NA, Num(80)},
     bmi                     : {ABSENT, NA, Num(25)},
     triglycerides_mg_dL     : {NA, Num(0), Num(80)},
     hdl_mg_dL               : {NA, Num(0), Num(40)},
     total_cholesterol_mg_dL : {ABSENT, NA, Num(200)},
     tg_to_hdl_ratio         : {ABSENT, NA, Num(5)},
     non_hdl_chol_mg_dL      : {ABSENT, NA, Num(150)}]

\* one payload, held both by a one-row merged table and by a request
InitDerive ==
    \E c \in DeriveInputs :
        /\ merged = <<RowOf(c)>>
        /\ cols = ColsOf(c)
        /\ request = RowOf(c)
        /\ payload = RowOf(c)
        /\ pc05 = "start"
        /\ labeled = <<>>
        /\ pcDerive = "start"
        /\ IdleSent /\ IdleStd /\ IdleJoin /\ IdleRow /\ IdleServe
        /\ IdleSplit /\ IdleStore

NextDerive == FeaturesLabelsMain \/ DeriveRequest

SpecDerive == InitDerive /\ [][NextDerive]_vars

\* C1: parity. The bulk derivation over the one-row table holding a payload
\* gives every derived field the value compute_derived_fields gives it.
C1_Parity ==
    (pc05 = "written" /\ Len(labeled) = 1 /\ pcDerive = "done") =>
        \A f \in DerivedFields : labeled[1][f] = payload[f]

\* C2: compute-if-absent. In the bulk and in the single-row context a derived
\* field that the input already carries (non-null) keeps the supplied value.
C2_ComputeIfAbsent ==
    /\ pc05 = "written" =>
        \A i \in 1..Len(labeled) : \A f \in DerivedFields :
            LET supplied == Col(cols, merged[labeled[i].idx + 1], f)
            IN  supplied # NA => labeled[i][f] = supplied
    /\ pcDerive = "done" =>
        \A f \in DerivedFields : request[f] # NA => payload[f] = request[f]

\* the inputs under which a derived field must stay null: inp is the record
\* before the derivation, out the record after it
NoRatioInputs(inp) ==
    \/ inp.hdl_mg_dL = NA \/ inp.hdl_mg_dL = Num(0)
    \/ inp.triglycerides_mg_dL = NA

NoBmiInputs(inp) ==
    \/ inp.height_cm = NA \/ inp.height_cm[1] <= 0
    \/ inp.weight_kg = NA

GuardedDivision(inp, out) ==
    /\ (inp.tg_to_hdl_ratio = NA /\ NoRatioInputs(inp)) =>
            out.tg_to_hdl_ratio = NA
    /\ (inp.bmi = NA /\ NoBmiInputs(inp)) => out.bmi = NA
    /\ (inp.tg_to_hdl_ratio = NA) => out.tg_to_hdl_ratio # INF
    /\ (inp.bmi = NA) => out.bmi # INF
    /\ (inp.non_hdl_chol_mg_dL = NA) => out.non_hdl_chol_mg_dL # INF

\* C14: guarded division. In the bulk and in the single-row context the
\* ratio stays null when HDL is zero or missing or triglycerides is missing,
\* bmi stays null when height is missing or not above 0 or weight is
\* missing, and no derived field is the result of a division by zero.
C14_GuardedDivision ==
    /\ pc05 = "written" =>
        \A i \in 1..Len(labeled) :
            LET raw == merged[labeled[i].idx + 1]
                inp == [f \in DOMAIN raw |-> Col(cols, raw, f)]
            IN  GuardedDivision(inp, labeled[i])
    /\ pcDerive = "done" => GuardedDivision(request, payload)

\* the optional request fields compute_derived_fields reads
OptionalInputs == {"height_cm", "weight_kg", "total_cholesterol_mg_dL"}

\* C23: graceful derivation. With any subset of the optional inputs null
\* compute_derived_fields returns: the step can always be taken, a derived
\* field that was not supplied and lacks an input stays null, and every
\* field other than the three derived ones keeps its value.
C23_GracefulDerivation ==
    /\ pcDerive = "start" => ENABLED DeriveRequest
    /\ pcDerive = "done" =>
        /\ DOMAIN payload = DOMAIN request
        /\ \A f \in DOMAIN request \ DerivedFields : payload[f] = request[f]
        /\ (request.bmi = NA
                /\ (request.height_cm = NA \/ request.weight_kg = NA)) =>
                    payload.bmi = NA
        /\ (request.non_hdl_chol_mg_dL = NA
                /\ (request.total_cholesterol_mg_dL = NA
                        \/ request.hdl_mg_dL = NA)) =>
                    payload.non_hdl_chol_mg_dL = NA
        /\ (request.tg_to_hdl_ratio = NA
                /\ (request.triglycerides_mg_dL = NA
                        \/ request.hdl_mg_dL = NA)) =>
                    payload.tg_to_hdl_ratio = NA

\* a request without weight and total cholesterol: only the ratio is derived
C23_Witness ==
    /\ pcDerive = "done"
    /\ request.height_cm = Num(200)
    /\ \A f \in OptionalInputs \ {"height_cm"} : request[f] = NA
    /\ \A f \in DerivedFields : request[f] = NA
    /\ payload.bmi = NA /\ payload.non_hdl_chol_mg_dL = NA
    /\ payload.tg_to_hdl_ratio = Num(2)
    /\ payload.height_cm = Num(200)

(***************************************************************************)
(* Inputs of the label checks: a merged table whose last row varies over   *)
(* every criterion, behind up to MaxPrefix plain rows (kept or dropped).   *)
(***************************************************************************)
MaxPrefix == 1

YesNo == {NA, <<"yes">>, <<"no">>, <<"unknown">>}

LabelInputs ==
    [hba1c_percent         : {NA, <<28, 5>>, <<57, 10>>, <<32, 5>>, <<13, 2>>},
     fasting_glucose_mg_dL : {Num(99), Num(100), Num(125), Num(126)},
     diabetes_self_report  : YesNo \cup {ABSENT},
     on_insulin_now        : {ABSENT, NA, <<"yes">>, <<"no">>},
     on_diabetes_pills_now : {ABSENT, <<"yes">>, <<"unknown">>}]

\* the row with one required cell null (or none, for f = "")
WithNull(r, f) == [g \in DOMAIN r |-> IF g = f THEN NA ELSE r[g]]

\* a plain row of the table: BaseRow, restricted to the table's columns
PlainRow(cs, f) ==
    WithNull([g \in DOMAIN BaseRow |-> Col(cs, BaseRow, g)], f)

PrefixChoices ==
    UNION {[1..n -> {"", "waist_circumference_cm"}] : n \in 0..MaxPrefix}

InitLabel ==
    \E c \in LabelInputs, f \in Required \cup {""}, pre \in PrefixChoices :
        /\ cols = ColsOf(c)
        /\ merged = [i \in 1..Len(pre) |-> PlainRow(ColsOf(c), pre[i])]
                        \o <<WithNull(RowOf(c), f)>>
        /\ pc05 = "start"
        /\ labeled = <<>>
        /\ IdleSent /\ IdleStd /\ IdleJoin /\ IdleDerive /\ IdleRow /\ IdleServe
        /\ IdleSplit /\ IdleStore

NextLabel == FeaturesLabelsMain

SpecLabel == InitLabel /\ [][NextLabel]_vars

\* the raw record of the merged table a labeled record was made from
RawOf(o) == merged[o.idx + 1]

FiresA1cDiabetes(r) ==
    r.hba1c_percent # NA /\ 2 * r.hba1c_percent[1] >= 13 * r.hba1c_percent[2]

FiresGluDiabetes(r) ==
    r.fasting_glucose_mg_dL # NA
        /\ r.fasting_glucose_mg_dL[1] >= 126 * r.fasting_glucose_mg_dL[2]

FiresA1cPre(r) ==
    /\ r.hba1c_percent # NA
    /\ 10 * r.hba1c_percent[1] >= 57 * r.hba1c_percent[2]
    /\ 2 * r.hba1c_percent[1] < 13 * r.hba1c_percent[2]

FiresGluPre(r) ==
    /\ r.fasting_glucose_mg_dL # NA
    /\ r.fasting_glucose_mg_dL[1] >= 100 * r.fasting_glucose_mg_dL[2]
    /\ r.fasting_glucose_mg_dL[1] < 126 * r.fasting_glucose_mg_dL[2]

FiresSelfReport(r) ==
    "diabetes_self_report" \in cols /\ r.diabetes_self_report = <<"yes">>

\* C3: label function. A labeled record has label 2 exactly when HbA1c >= 6.5,
\* fasting glucose >= 126, self-report "yes" or the combined medication flag
\* "yes" fires; else 1 exactly when HbA1c is in [5.7, 6.5) or glucose in
\* [100, 126); else 0. Missing values fire nothing.
C3_LabelFunction ==
    pc05 = "written" =>
        \A i \in 1..Len(labeled) :
            LET o   == labeled[i]
                r   == RawOf(o)
                dia == \/ FiresA1cDiabetes(r) \/ FiresGluDiabetes(r)
                       \/ FiresSelfReport(r)
                       \/ o.on_glucose_lowering_meds = <<"yes">>
                pre == FiresA1cPre(r) \/ FiresGluPre(r)
            IN  o.label_t2d_status = IF dia THEN 2 ELSE IF pre THEN 1 ELSE 0

\* a record with HbA1c missing and self-report "unknown" labeled 1 by glucose
C3_Witness ==
    /\ pc05 = "written"
    /\ \E i \in 1..Len(labeled) :
        /\ labeled[i].hba1c_percent = NA
        /\ labeled[i].diabetes_self_report = <<"unknown">>
        /\ labeled[i].fasting_glucose_mg_dL = Num(125)
        /\ labeled[i].label_t2d_status = 1

AnyDiabetesFlag(o) ==
    \/ o.diabetes_by_a1c = <<TRUE>> \/ o.diabetes_by_glucose = <<TRUE>>
    \/ o.diabetes_by_selfreport = <<TRUE>> \/ o.diabetes_by_meds = <<TRUE>>

AnyPrediabetesFlag(o) ==
    o.prediabetes_by_a1c = <<TRUE>> \/ o.prediabetes_by_glucose = <<TRUE>>

\* C4: label precedence. A record in which a diabetes criterion and a
\* prediabetes criterion both fire is labeled 2, never 1.
C4_Precedence ==
    pc05 = "written" =>
        \A i \in 1..Len(labeled) :
            LET r == RawOf(labeled[i])
            IN  (/\ \/ FiresA1cDiabetes(r) \/ FiresGluDiabetes(r)
                    \/ FiresSelfReport(r)
                    \/ labeled[i].on_glucose_lowering_meds = <<"yes">>
                 /\ FiresA1cPre(r) \/ FiresGluPre(r))
                => labeled[i].label_t2d_status = 2

\* a record with self-report "yes" and glucose in [100, 126) labeled 2
C4_Witness ==
    /\ pc05 = "written"
    /\ \E i \in 1..Len(labeled) :
        /\ labeled[i].diabetes_by_selfreport = <<TRUE>>
        /\ labeled[i].prediabetes_by_glucose = <<TRUE>>
        /\ labeled[i].diabetes_by_glucose = <<FALSE>>
        /\ labeled[i].label_t2d_status = 2

EvidenceFlags ==
    {"diabetes_by_a1c", "diabetes_by_glucose", "diabetes_by_selfreport",
     "diabetes_by_meds", "prediabetes_by_a1c", "prediabetes_by_glucose"}

\* C5: evidence retention. Every labeled record carries the six evidence
\* flags as booleans and its label is determined by them: 2 iff a diabetes
\* flag is true, 1 iff none is and a prediabetes flag is true, 0 iff all six
\* are false.
C5_EvidenceRetention ==
    pc05 = "written" =>
        \A i \in 1..Len(labeled) :
            LET o == labeled[i]
            IN  /\ \A f \in EvidenceFlags : o[f] \in {<<TRUE>>, <<FALSE>>}
                /\ o.label_t2d_status = 2 <=> AnyDiabetesFlag(o)
                /\ o.label_t2d_status = 1
                       <=> (~AnyDiabetesFlag(o) /\ AnyPrediabetesFlag(o))
                /\ o.label_t2d_status = 0
                       <=> \A f \in EvidenceFlags : o[f] = <<FALSE>>

EightRequired ==
    {"fasting_glucose_mg_dL", "triglycerides_mg_dL", "hdl_mg_dL", "age_years",
     "sex_at_birth", "waist_circumference_cm", "systolic_bp_mmHg",
     "diastolic_bp_mmHg"}

\* C6: strict cohort. The labeled table holds exactly the merged records whose
\* eight required fields are all non-null, once each, in order and with their
\* input cells; a null HbA1c alone excludes nothing.
C6_StrictCohort ==
    pc05 = "written" =>
        /\ \A i \in 1..Len(merged) :
            (\A c \in EightRequired : merged[i][c] # NA)
                <=> (\E j \in 1..Len(labeled) : labeled[j].idx = i - 1)
        /\ \A j, k \in 1..Len(labeled) :
            j < k => labeled[j].idx < labeled[k].idx
        /\ \A j \in 1..Len(labeled) :
            \A f \in DOMAIN BaseRow \ DerivedFields :
                labeled[j][f] = RawOf(labeled[j])[f]

\* a row with a null required cell was dropped and a row without HbA1c kept
C6_Witness ==
    /\ pc05 = "written"
    /\ Len(labeled) < Len(merged)
    /\ \E j \in 1..Len(labeled) : labeled[j].hba1c_percent = NA

(***************************************************************************)
(* Inputs of the row-build check                                           *)
(***************************************************************************)
MaxFeatures == 3

MaxKeys == 3

FeatureNames == {"age_years", "bmi", "hdl_mg_dL"}

PayloadKeys == FeatureNames \cup {"request_id"}

PayloadValues == {NA, Num(40), <<"male">>}

\* the sequences over S of length <= n without a repeated element
DistinctSeqs(S, n) ==
    {q \in UNION {[1..m -> S] : m \in 0..n} :
        \A i, j \in 1..Len(q) : q[i] = q[j] => i = j}

\* the dicts with at most MaxKeys keys, as (key, value) pairs in key order
PayloadItems ==
    UNION {{[i \in 1..Len(ks) |-> <<ks[i], vs[i]>>] :
                vs \in [1..Len(ks) -> PayloadValues]} :
           ks \in DistinctSeqs(PayloadKeys, MaxKeys)}

InitRow ==
    /\ feature_list \in DistinctSeqs(FeatureNames, MaxFeatures)
    /\ items \in PayloadItems
    /\ X = <<>>
    /\ pcRow = "start"
    /\ IdleSent /\ IdleStd /\ IdleJoin /\ IdleFeat /\ IdleDerive /\ IdleServe
    /\ IdleSplit /\ IdleStore

NextRow == BuildRow

SpecRow == InitRow /\ [][NextRow]_vars

\* the orderings of a payload's keys
Orderings(its) ==
    {[i \in 1..Len(its) |-> its[f[i]]] :
        f \in {g \in [1..Len(its) -> 1..Len(its)] :
                 \A i, j \in 1..Len(its) : g[i] = g[j] => i = j}}

\* C7: row build. build_X returns one row whose columns are the frozen feature
\* list in its order and length, each holding the payload's value for that
\* name, or null when the payload lacks it; other payload keys do not appear;
\* every ordering of the payload's keys gives the same row.
C7_RowBuild ==
    pcRow = "built" =>
        /\ X.columns = feature_list
        /\ Len(X.row) = Len(feature_list)
        /\ \A i \in 1..Len(feature_list) :
            /\ \A j \in 1..Len(items) :
                items[j][1] = feature_list[i] => X.row[i] = items[j][2]
            /\ (\A j \in 1..Len(items) : items[j][1] # feature_list[i])
                => X.row[i] = NA
        /\ \A o \in Orderings(items) : build_X(feature_list, o) = X

\* a payload with a key outside the list, lacking a listed name, and holding
\* its listed keys in another order than the list's
C7_Witness ==
    /\ pcRow = "built"
    /\ Len(feature_list) = 3
    /\ HasKey(items, "request_id")
    /\ \E i \in 1..3 : ~HasKey(items, feature_list[i])
    /\ \E i, j \in 1..Len(items) :
        i < j /\ items[i][1] = feature_list[2] /\ items[j][1] = feature_list[1]
              /\ items[i][2] # NA /\ items[j][2] # NA

(***************************************************************************)
(* Inputs of the join checks                                               *)
(***************************************************************************)
MaxRows == 2

NumOthers == 2

SubjectKeys == {Num(101), Num(102)}

\* table t with the subject keys ks: row p carries the cell <<t, p>>
TableOf(t, ks) == [p \in 1..Len(ks) |-> [SEQN |-> ks[p], cell |-> <<t, p>>]]

KeySeqs == UNION {[1..n -> SubjectKeys] : n \in 0..MaxRows}

InitJoin ==
    \E bk \in KeySeqs, ok \in [1..NumOthers -> KeySeqs] :
        /\ base = TableOf(0, bk)
        /\ others = [t \in 1..NumOthers |-> TableOf(t, ok[t])]
        /\ df04 = AsFrame(TableOf(0, bk))
        /\ k04 = 0
        /\ pc04 = "joining"
        /\ out04 = <<>>
        /\ warned04 = FALSE
        /\ IdleSent /\ IdleStd /\ IdleFeat /\ IdleDerive /\ IdleRow /\ IdleServe
        /\ IdleSplit /\ IdleStore

NextJoin == JoinStep \/ WriteMerged

SpecJoin == InitJoin /\ [][NextJoin]_vars

HasDuplicateKey(tbl) ==
    \E i, j \in 1..Len(tbl) : i < j /\ tbl[i].SEQN = tbl[j].SEQN

\* C8: join cardinality. A join onto a table that holds a subject key more
\* than once fails; any other join returns len(base) rows, each the base's
\* row with the other table's cell added.
C8_JoinCardinality ==
    [][(pc04 = "joining" /\ k04 < Len(others)) =>
        IF HasDuplicateKey(others[k04 + 1])
        THEN pc04' = "failed" /\ out04' = <<>>
        ELSE /\ pc04' = "joining"
             /\ Len(df04') = Len(df04)
             /\ \A i \in 1..Len(df04) :
                 /\ df04'[i].SEQN = df04[i].SEQN
                 /\ SubSeq(df04'[i].cells, 1, Len(df04[i].cells)) = df04[i].cells
                 /\ Len(df04'[i].cells) = Len(df04[i].cells) + 1]_vars

\* a two-row base, one of its subjects unmatched, joined onto a duplicate-free
\* table, after which a join onto a table with a repeated key failed
C8_Witness ==
    /\ pc04 = "failed"
    /\ k04 = 1
    /\ Len(df04) = 2
    /\ \E i \in 1..2 : df04[i].cells[2] = NA
    /\ \E i \in 1..2 : df04[i].cells[2] # NA

\* C9: merged-cohort uniqueness. A written merged table has one row per
\* subject key and the base table's subject keys, and no standardized table,
\* the base included, held a duplicate key: a duplicate stops the run.
C9_MergedUnique ==
    pc04 = "written" =>
        /\ ~HasDuplicateKey(out04)
        /\ {out04[i].SEQN : i \in 1..Len(out04)}
               = {base[i].SEQN : i \in 1..Len(base)}
        /\ ~HasDuplicateKey(base)
        /\ \A t \in 1..Len(others) : ~HasDuplicateKey(others[t])

(***************************************************************************)
(* Inputs of the sentinel checks                                           *)
(***************************************************************************)
MaxLen == 3

NumericValues ==
    {NA, Num(1), Num(7), Num(8), Num(9), Num(77), Num(99999), <<15, 2>>}

\* an object column of a table read from parquet holds text or null
ObjectValues == {NA, <<"yes">>, <<"7">>, <<"99">>}

InitSent ==
    /\ series \in
         {[dtype |-> "numeric", vals |-> v] :
             v \in UNION {[1..n -> NumericValues] : n \in 0..MaxLen}}
         \cup
         {[dtype |-> "object", vals |-> v] :
             v \in UNION {[1..n -> ObjectValues] : n \in 0..MaxLen}}
    /\ normalized = <<>>
    /\ renormalized = <<>>
    /\ pcSent = "start"
    /\ IdleStd /\ IdleJoin /\ IdleFeat /\ IdleDerive /\ IdleRow /\ IdleServe
    /\ IdleSplit /\ IdleStore

NextSent == Normalize \/ Renormalize

SpecSent == InitSent /\ [][NextSent]_vars

ReservedCodes ==
    {Num(7), Num(9), Num(77), Num(99), Num(777), Num(999), Num(7777),
     Num(9999), Num(77777), Num(99999)}

\* C10: sentinel normalization. In a numeric column every value equal to a
\* reserved code becomes null and every other value stays, length and order
\* kept; a text column is returned unchanged.
C10_SentinelNormalization ==
    pcSent \in {"done", "again"} =>
        /\ normalized.dtype = series.dtype
        /\ Len(normalized.vals) = Len(series.vals)
        /\ series.dtype = "numeric" =>
            \A i \in 1..Len(series.vals) :
                normalized.vals[i] =
                    IF series.vals[i] \in ReservedCodes THEN NA
                    ELSE series.vals[i]
        /\ series.dtype # "numeric" => normalized = series

\* a numeric column <<7, 8, 99999>> normalized to <<null, 8, null>>
C10_Witness ==
    /\ pcSent = "done"
    /\ series = [dtype |-> "numeric", vals |-> <<Num(7), Num(8), Num(99999)>>]
    /\ normalized.vals = <<NA, Num(8), NA>>

\* C11: sentinel idempotence. Normalizing an already normalized column
\* returns it unchanged, and no reserved code is in the column after the
\* first pass or after the second.
C11_SentinelIdempotence ==
    /\ pcSent \in {"done", "again"} =>
        \A i \in 1..Len(normalized.vals) :
            normalized.vals[i] \notin ReservedCodes
    /\ pcSent = "again" =>
        /\ renormalized = normalized
        /\ \A i \in 1..Len(renormalized.vals) :
            renormalized.vals[i] \notin ReservedCodes

\* a numeric column <<7, 7, 8>> after two passes: <<null, null, 8>> twice
C11_Witness ==
    /\ pcSent = "again"
    /\ series = [dtype |-> "numeric", vals |-> <<Num(7), Num(7), Num(8)>>]
    /\ normalized.vals = <<NA, NA, Num(8)>>
    /\ renormalized.vals = <<NA, NA, Num(8)>>

\* C15: combined medication flag. Computing the flag never fails, and for
\* every record it is "yes" iff the insulin-now flag or the pills-now flag
\* is "yes" and "no" otherwise, a flag that is null or whose column the table
\* lacks counting as not "yes".
C15_CombinedMedsFlag ==
    /\ pc05 # "failed"
    /\ pc05 = "written" =>
        \A i \in 1..Len(labeled) :
            LET raw == merged[labeled[i].idx + 1]
                yes == \/ ("on_insulin_now" \in cols
                            /\ raw.on_insulin_now = <<"yes">>)
                       \/ ("on_diabetes_pills_now" \in cols
                            /\ raw.on_diabetes_pills_now = <<"yes">>)
            IN  labeled[i].on_glucose_lowering_meds =
                    IF yes THEN <<"yes">> ELSE <<"no">>

(***************************************************************************)
(* Inputs of the service checks                                            *)
(***************************************************************************)
MaxSpecs == 2

Diseases == {"t2d", "ckd"}

RequestIds == {"r1", "r2"}

\* predict_proba rows (p_normal, p_prediabetes, p_diabetes)
Probas ==
    {<<<<1, 5>>, <<1, 5>>, <<3, 5>>>>,
     <<<<1, 5>>, <<3, 5>>, <<1, 5>>>>,
     <<<<0, 1>>, <<1, 2>>, <<1, 2>>>>,
     <<<<2, 5>>, <<3, 10>>, <<3, 10>>>>}

TrainedOn == <<"age_years", "bmi", "tg_to_hdl_ratio">>

\* feature_list.json: the trained list, the same in another order, a shorter
FeatureLists ==
    {TrainedOn, <<"bmi", "age_years", "tg_to_hdl_ratio">>, <<"age_years", "bmi">>}

Importances ==
    {[exists |-> FALSE, rows |-> <<>>],
     [exists |-> TRUE,
      rows |-> <<[feature |-> "age_years", importance_mean |-> 2],
                 [feature |-> "bmi", importance_mean |-> 5]>>]}

\* fitted scorers: the probabilities of the two classes of rows
Tables ==
    {<<a, b>> \in Probas \X Probas : a[1] = <<1, 5>> /\ b[1] # <<1, 5>>}

T2dArtifacts ==
    {[readable |-> rd,
      model |-> [trained_on |-> TrainedOn,
                 table |-> [k \in 0..1 |-> t[k + 1]]],
      feature_list |-> fl,
      importance |-> imp] :
        rd \in BOOLEAN, t \in Tables, fl \in FeatureLists,
        imp \in Importances}

CkdArtifacts ==
    {[readable |-> rd,
      model |-> [trained_on |-> <<"age_years">>,
                 table |-> [k \in 0..1 |-> <<<<1, 5>>, <<1, 5>>, <<3, 5>>>>]],
      feature_list |-> <<"age_years">>,
      importance |-> [exists |-> FALSE, rows |-> <<>>]] : rd \in BOOLEAN}

\* the files of a disease that is not configured
NoArtifact ==
    [readable |-> FALSE,
     model |-> [trained_on |-> <<>>, table |-> <<>>],
     feature_list |-> <<>>,
     importance |-> [exists |-> FALSE, rows |-> <<>>]]

\* validated request bodies: HbA1c absent, below and at 5.7; bmi derivable
\* or not
Bodies ==
    {[f \in {RequestFields[i] : i \in 1..Len(RequestFields)} |->
        IF f = "hba1c_percent" THEN a
        ELSE IF f = "height_cm" THEN h
        ELSE IF f = "weight_kg" THEN Num(80)
        ELSE BaseRow[f]] :
      a \in {NA, <<28, 5>>, <<57, 10>>}, h \in {NA, Num(200)}}

NoRequest == [pc |-> "idle", body |-> <<>>, payload |-> <<>>,
              response |-> NoResponse]

InitServe ==
    /\ \E sl \in UNION {[1..n -> Diseases] : n \in 0..MaxSpecs} :
          specs = SpecsDict(sl)
    /\ \E t \in T2dArtifacts, c \in CkdArtifacts :
          artifacts =
            [d \in Diseases |->
                IF \A i \in 1..Len(specs) : specs[i] # d THEN NoArtifact
                ELSE IF d = "t2d" THEN t ELSE c]
    /\ bundles = <<>>
    /\ pcApp = IF specs = <<>> THEN "serving" ELSE "loading"
    /\ reqs = [r \in RequestIds |-> NoRequest]
    /\ lastGet = <<>>
    /\ IdleSent /\ IdleStd /\ IdleJoin /\ IdleFeat /\ IdleDerive /\ IdleRow
    /\ IdleSplit /\ IdleStore

NextServe ==
    \/ LoadBundle
    \/ RegistryGet
    \/ \E r \in RequestIds, body \in Bodies : Receive(r, body)
    \/ \E r \in RequestIds : GetBundle(r)
    \/ \E r \in RequestIds : Derive(r)
    \/ \E r \in RequestIds : Predict(r)

SpecServe == InitServe /\ [][NextServe]_vars

\* once the registry is loaded no step changes its bundles
BundlesFrozen == pcApp = "serving" => bundles' = bundles

\* the answer get must give for a disease, by the registry's bundles
Registered(disease) == \E i \in 1..Len(bundles) : bundles[i].disease = disease

\* C16: unknown disease. A get for a disease without a loaded bundle fails
\* with an error that lists the registered diseases, a request hit by it is
\* answered with that error (404), no step changes the bundles, and a get
\* for a registered disease gives its bundle whatever failed before.
C16_UnknownDisease ==
    /\ [](/\ lastGet # <<>> =>
              IF lastGet.raised
              THEN /\ ~Registered(lastGet.error.disease)
                   /\ lastGet.error.available = Keys(bundles)
              ELSE \E i \in 1..Len(bundles) :
                        bundles[i].bundle = lastGet.bundle
          /\ \A r \in RequestIds :
              reqs[r].pc \in {"got", "derived", "done"} =>
                IF Registered("t2d")
                THEN reqs[r].response.status # 404
                ELSE /\ reqs[r].pc = "done"
                     /\ reqs[r].response =
                          [NoResponse EXCEPT
                             !.status = 404,
                             !.detail = [disease |-> "t2d",
                                         available |-> Keys(bundles)]])
    /\ [][BundlesFrozen]_vars

\* only ckd is registered: a request was answered 404 listing ckd, and a
\* get for ckd gave its bundle
C16_Witness ==
    /\ Keys(bundles) = <<"ckd">>
    /\ reqs["r1"].pc = "done"
    /\ reqs["r1"].response.status = 404
    /\ reqs["r1"].response.detail.available = <<"ckd">>
    /\ lastGet # <<>>
    /\ ~lastGet.raised
    /\ lastGet.bundle = Lookup(bundles, "ckd")

Handled == {r \in RequestIds : reqs[r].pc # "idle"}

\* C17: eager load, fail fast. A request is handled, and get is called, only
\* when load_all has loaded a bundle for every configured disease; when a
\* bundle failed to load no request is ever handled; and the registry holds
\* at most one bundle per disease.
C17_EagerLoad ==
    /\ (Handled # {} \/ lastGet # <<>>) =>
          /\ pcApp = "serving"
          /\ \A i \in 1..Len(specs) : Registered(specs[i])
    /\ (\E i \in 1..Len(specs) : ~artifacts[specs[i]].readable) =>
          (pcApp # "serving" /\ Handled = {} /\ lastGet = <<>>)
    /\ \A i, j \in 1..Len(bundles) :
          bundles[i].disease = bundles[j].disease => i = j

\* both diseases configured and loaded, a request answered
C17_Witness ==
    /\ Len(specs) = 2
    /\ Keys(bundles) = specs
    /\ pcApp = "serving"
    /\ reqs["r1"].pc = "done"
    /\ reqs["r1"].response.status = 200

\* what a request's body alone determines
OwnPayload(r) == compute_derived_fields(reqs[r].body)

OwnResponse(r) ==
    LET bundle == Lookup(bundles, "t2d")
        Xrow == build_X(bundle.feature_list, ItemsOf(OwnPayload(r)))
    IN  PredictResponse(bundle, bundle.model.table[ScoreKey(Xrow)],
                        reqs[r].body)

\* a step of one request leaves the other requests as they are
OneRequestSteps ==
    \A r, q \in RequestIds :
        (r # q /\ reqs'[r] # reqs[r]) => reqs'[q] = reqs[q]

BodyKept ==
    \A r \in RequestIds :
        reqs[r].pc # "idle" => reqs'[r].body = reqs[r].body

\* C18: immutable bundles under concurrency. Under every interleaving of
\* the requests no step changes the bundle map, a feature list or an
\* importance list, and a request's derived payload and its result are the
\* ones its own body determines.
C18_ImmutableBundles ==
    /\ [](\A r \in RequestIds :
            /\ reqs[r].pc = "derived" => reqs[r].payload = OwnPayload(r)
            /\ (reqs[r].pc = "done" /\ reqs[r].response.status = 200) =>
                  /\ reqs[r].payload = OwnPayload(r)
                  /\ reqs[r].response = OwnResponse(r))
    /\ [][BundlesFrozen /\ OneRequestSteps /\ BodyKept]_vars

\* two requests in flight with different bodies, one derived, one answered
C18_Witness ==
    /\ reqs["r1"].pc = "derived"
    /\ reqs["r2"].pc = "done"
    /\ reqs["r2"].response.status = 200
    /\ reqs["r1"].payload.bmi = Num(20)
    /\ reqs["r2"].payload.bmi = NA
    /\ reqs["r1"].body.hba1c_percent # reqs["r2"].body.hba1c_percent

Mismatch(bundle) == bundle.feature_list # bundle.model.trained_on

\* C19: feature-list mismatch is caught at load. When the feature list read
\* for a bundle is not the list the scorer was trained on, loading fails:
\* the service never serves with such a bundle and no request meets it.
C19_MismatchCaughtAtLoad ==
    \A i \in 1..Len(bundles) :
        Mismatch(bundles[i].bundle) =>
            /\ pcApp # "serving"
            /\ Handled = {}

Has(steps, sentences) ==
    \E i \in 1..Len(steps) : steps[i] = sentences[1]

\* C20: guidance rules. An answer carries the clinical-confirmation guidance
\* iff p_diabetes >= 0.5, else the follow-up-screening guidance iff
\* p_prediabetes >= 0.5, else the routine guidance, so exactly one of the
\* three; and the HbA1c note is appended iff the request's HbA1c is present
\* and >= 5.7, whichever branch was taken.
C20_GuidanceRules ==
    \A r \in RequestIds :
        (reqs[r].pc = "done" /\ reqs[r].response.status = 200) =>
            LET steps == reqs[r].response.suggested_next_steps
                p_diabetes == reqs[r].response.probabilities[3]
                p_pred == reqs[r].response.probabilities[2]
                a1c == reqs[r].body.hba1c_percent
                note == a1c # NA /\ a1c[1] * 10 >= 57 * a1c[2]
                branch == IF p_diabetes[1] * 2 >= p_diabetes[2]
                          THEN STEPS_CLINICAL
                          ELSE IF p_pred[1] * 2 >= p_pred[2]
                          THEN STEPS_FOLLOW_UP
                          ELSE STEPS_ROUTINE
            IN  /\ SubSeq(steps, 1, Len(branch)) = branch
                /\ Cardinality({b \in {STEPS_CLINICAL, STEPS_FOLLOW_UP,
                                        STEPS_ROUTINE} : Has(steps, b)}) = 1
                /\ Has(steps, STEPS_HBA1C) <=> note
                /\ Len(steps) = Len(branch) + (IF note THEN 1 ELSE 0)
                /\ note => steps[Len(steps)] = STEPS_HBA1C[1]

\* p_diabetes = p_prediabetes = 0.5 and HbA1c 5.7: the clinical guidance
\* followed by the HbA1c note
C20_Witness ==
    /\ reqs["r1"].pc = "done"
    /\ reqs["r1"].response.status = 200
    /\ reqs["r1"].response.probabilities = <<<<0, 1>>, <<1, 2>>, <<1, 2>>>>
    /\ reqs["r1"].body.hba1c_percent = <<57, 10>>
    /\ reqs["r1"].response.suggested_next_steps = STEPS_CLINICAL \o STEPS_HBA1C

\* C21: predicted label. A request handled with a loaded bundle whose list
\* is the scorer's is answered 200; an answer reports the scores the scorer
\* gives the row built, in the bundle's list order, from the derived payload,
\* as (p_normal, p_prediabetes, p_diabetes), and its predicted_label is the
\* name, in the order normal, prediabetes, diabetes, of a class whose score
\* is maximal.
C21_PredictedLabel ==
    \A r \in RequestIds :
        reqs[r].pc = "done" =>
            /\ (Registered("t2d") /\ ~Mismatch(Lookup(bundles, "t2d"))) =>
                    reqs[r].response.status = 200
            /\ reqs[r].response.status = 200 =>
                LET bundle == Lookup(bundles, "t2d")
                    derived == compute_derived_fields(reqs[r].body)
                    row == [i \in 1..Len(bundle.feature_list) |->
                                derived[bundle.feature_list[i]]]
                    n == Cardinality({i \in DOMAIN row : row[i] # NA}) % 2
                    p == reqs[r].response.probabilities
                    names == <<"normal", "prediabetes", "diabetes">>
                IN  /\ p = bundle.model.table[n]
                    /\ \E i \in 1..3 :
                        /\ reqs[r].response.predicted_label = names[i]
                        /\ \A j \in 1..3 :
                              p[i][1] * p[j][2] >= p[j][1] * p[i][2]

\* scores (0, 0.5, 0.5): the answer names prediabetes, the first maximum
C21_Witness ==
    /\ reqs["r1"].pc = "done"
    /\ reqs["r1"].response.status = 200
    /\ reqs["r1"].response.probabilities = <<<<0, 1>>, <<1, 2>>, <<1, 2>>>>
    /\ reqs["r1"].response.predicted_label = "prediabetes"
    /\ reqs["r1"].payload.bmi = Num(20)

(***************************************************************************)
(* Inputs of the standardization checks                                    *)
(***************************************************************************)
MaxStdRows == 1

\* the raw tables of n rows whose columns hold the given codes
RawTables(n, codes) ==
    {[n |-> n, col |-> c] :
        c \in [DOMAIN codes ->
                 {[present |-> FALSE, vals |-> <<>>]} \cup
                 {[present |-> TRUE, vals |-> v] :
                     v \in [1..n -> UNION {codes[k] : k \in DOMAIN codes}]}]}

WellCoded(t, codes) ==
    \A k \in DOMAIN codes :
        \A i \in 1..Len(t.col[k].vals) : t.col[k].vals[i] \in codes[k]

DemoCodes ==
    [sex_at_birth |-> {NA, Num(1), Num(2), Num(3), Num(7)},
     race_ethnicity |-> {NA, Num(1), Num(5), Num(6), Num(7)},
     pregnancy_status |-> {NA, Num(1), Num(2), Num(3)}]

DiqCodes ==
    [diabetes_self_report |-> {NA, Num(1), Num(2), Num(3), Num(9)},
     on_insulin_now |-> {NA, Num(1), Num(2), Num(9)},
     on_diabetes_pills_now |-> {NA, Num(1), Num(2), Num(7)}]

Readings == {NA, Num(77), Num(120), Num(131)}

BpxCodes ==
    [BPXSY1 |-> Readings, BPXSY2 |-> Readings,
     BPXDI1 |-> Readings, BPXDI2 |-> Readings]

InitStd ==
    /\ \E n \in 1..MaxStdRows :
        \/ /\ name03 = "DEMO"
           /\ raw03 \in {t \in RawTables(n, DemoCodes) : WellCoded(t, DemoCodes)}
        \/ /\ name03 = "BPX"
           /\ raw03 \in RawTables(n, BpxCodes)
        \/ /\ name03 = "DIQ"
           /\ raw03 \in {t \in RawTables(n, DiqCodes) : WellCoded(t, DiqCodes)}
    /\ std03 = <<>>
    /\ pc03 = "start"
    /\ IdleSent /\ IdleJoin /\ IdleFeat /\ IdleDerive /\ IdleRow /\ IdleServe
    /\ IdleSplit /\ IdleStore

NextStd == StandardizeDemo \/ StandardizeBpx \/ StandardizeDiq

SpecStd == InitStd /\ [][NextStd]_vars

SexLabels == {"male", "female", "unknown"}

RaceLabels ==
    {"mexican_american", "other_hispanic", "non_hispanic_white",
     "non_hispanic_black", "non_hispanic_asian", "other_or_multiracial",
     "unknown"}

PregnancyLabels == {"pregnant", "not_pregnant", "unknown"}

YesNoLabels == {"yes", "no", "unknown"}

\* the label a raw cell must be recoded to, "" where the claim leaves it open
\* (a sentinel code that is also a key of the mapping)
ExpectedLabel(field, v) ==
    LET mapped ==
          IF field = "sex_at_birth" THEN 1 :> "male" @@ 2 :> "female"
          ELSE IF field = "race_ethnicity"
          THEN 1 :> "mexican_american" @@ 2 :> "other_hispanic"
               @@ 3 :> "non_hispanic_white" @@ 4 :> "non_hispanic_black"
               @@ 6 :> "non_hispanic_asian"
          ELSE IF field = "pregnancy_status"
          THEN 1 :> "pregnant" @@ 2 :> "not_pregnant"
          ELSE 1 :> "yes" @@ 2 :> "no"
    IN  IF v = NA THEN "unknown"
        ELSE IF v[1] \in DOMAIN mapped THEN mapped[v[1]]
        ELSE IF field = "race_ethnicity" /\ v[1] = 7 THEN ""
        ELSE "unknown"

LabelsOf(field) ==
    IF field = "sex_at_birth" THEN SexLabels
    ELSE IF field = "race_ethnicity" THEN RaceLabels
    ELSE IF field = "pregnancy_status" THEN PregnancyLabels
    ELSE YesNoLabels

\* C12: categorical recodes are never null. Every cell of a recoded field
\* whose raw column is in the table holds a label of the field's label set:
\* the mapped label for a mapped code, "unknown" for a null, a sentinel or
\* an unmapped code.
C12_RecodesNeverNull ==
    (pc03 = "written" /\ name03 \in {"DEMO", "DIQ"}) =>
        \A f \in DOMAIN std03 :
            raw03.col[f].present =>
                \A i \in 1..raw03.n :
                    /\ std03[f][i] # NA
                    /\ std03[f][i][1] \in LabelsOf(f)
                    /\ LET e == ExpectedLabel(f, raw03.col[f].vals[i])
                       IN  e # "" => std03[f][i] = <<e>>

\* a DEMO row with sex code 3 (unmapped), a null race and pregnancy code 1
C12_Witness ==
    /\ pc03 = "written" /\ name03 = "DEMO"
    /\ raw03.col["sex_at_birth"].vals = <<Num(3)>>
    /\ raw03.col["race_ethnicity"].vals = <<NA>>
    /\ raw03.col["pregnancy_status"].vals = <<Num(1)>>
    /\ std03 = [sex_at_birth |-> <<<<"unknown">>>>,
                race_ethnicity |-> <<<<"unknown">>>>,
                pregnancy_status |-> <<<<"pregnant">>>>]

\* the non-null raw readings of row i in the reading columns the table has
RawReadings(df, cs, i) ==
    LET existing == SelectSeq(cs, LAMBDA c : df.col[c].present)
    IN  SelectSeq([k \in 1..Len(existing) |-> df.col[existing[k]].vals[i]],
                  LAMBDA v : v # NA)

\* C13: reading average. For every subject each blood-pressure value is the
\* arithmetic mean of all the subject's non-null raw readings, and null
\* (never zero) when there is no such reading or no reading column.
C13_ReadingAverage ==
    (pc03 = "written" /\ name03 = "BPX") =>
        \A i \in 1..raw03.n :
            /\ LET rs == RawReadings(raw03, systolic_readings, i)
               IN  std03.systolic_bp_mmHg[i] =
                     IF rs = <<>> THEN NA
                     ELSE Div(SumCells(rs), Num(Len(rs)))
            /\ LET rd == RawReadings(raw03, diastolic_readings, i)
               IN  std03.diastolic_bp_mmHg[i] =
                     IF rd = <<>> THEN NA
                     ELSE Div(SumCells(rd), Num(Len(rd)))

\* C24: missing source column. Whatever declared source columns a raw table
\* lacks, the standardization run completes (it never stops on the absent
\* column) and every cell of a field whose source column is absent is null
\* or "unknown".
C24_MissingSourceColumn ==
    /\ pc03 # "failed"
    /\ pc03 = "written" =>
        \A f \in DOMAIN std03 :
            (f \in DOMAIN raw03.col /\ ~raw03.col[f].present) =>
                \A i \in 1..raw03.n : std03[f][i] \in {NA, <<"unknown">>}

\* the label the fixed mapping assigns to a raw race/ethnicity code
RaceLabelOf(v) ==
    IF v = Num(1) THEN "mexican_american"
    ELSE IF v = Num(2) THEN "other_hispanic"
    ELSE IF v = Num(3) THEN "non_hispanic_white"
    ELSE IF v = Num(4) THEN "non_hispanic_black"
    ELSE IF v = Num(6) THEN "non_hispanic_asian"
    ELSE IF v = Num(7) THEN "other_or_multiracial"
    ELSE "unknown"

\* C26: race/ethnicity recode. In a written DEMO table every subject's
\* race_ethnicity is the label the fixed mapping assigns to the raw code:
\* code 7 gives "other_or_multiracial", only unmapped or missing codes give
\* "unknown".
C26_RaceRecode ==
    (pc03 = "written" /\ name03 = "DEMO") =>
        \A i \in 1..raw03.n :
            std03.race_ethnicity[i] =
                <<RaceLabelOf(raw03.col["race_ethnicity"].vals[i])>>

(***************************************************************************)
(* Inputs of the split and training checks                                 *)
(***************************************************************************)
MaxCols == 3

\* columns the merged table can carry into the labeled table
MergedCols ==
    {"SEQN", "age_years", "fasting_glucose_mg_dL", "hba1c_percent", "bmi",
     "diabetes_self_report", "on_insulin_now", "on_diabetes_pills_now"}

\* the columns stage 05 appends to the merged table's, in the order it
\* assigns them
Appended(head) ==
    (IF "bmi" \in Range(head) THEN <<>> ELSE <<"bmi">>)
    \o <<"tg_to_hdl_ratio", "non_hdl_chol_mg_dL", "on_glucose_lowering_meds",
          "label_t2d_status",
          "diabetes_by_a1c", "diabetes_by_glucose", "diabetes_by_selfreport",
          "diabetes_by_meds", "prediabetes_by_a1c", "prediabetes_by_glucose">>

\* a labeled table as stage 05 writes it, or a table that was never labeled
InitSplit ==
    /\ \E head \in UNION {[1..n -> MergedCols] : n \in 0..MaxCols} :
          /\ \A i, j \in DOMAIN head : head[i] = head[j] => i = j
          /\ \/ columns06 = head \o Appended(head)
             \/ columns06 = head
    /\ X_train = <<>>
    /\ split_feature_list = NoFile
    /\ model_feature_list = NoFile
    /\ pc06 = "start"
    /\ IdleSent /\ IdleStd /\ IdleJoin /\ IdleFeat /\ IdleDerive /\ IdleRow
    /\ IdleServe /\ IdleStore

NextSplit == SplitExport \/ TrainModel

SpecSplit == InitSplit /\ [][NextSplit]_vars

\* the columns that define or identify the label
LabelDefining ==
    {"label_t2d_status", "SEQN",
     "diabetes_by_a1c", "diabetes_by_glucose", "diabetes_by_selfreport",
     "diabetes_by_meds", "prediabetes_by_a1c", "prediabetes_by_glucose",
     "diabetes_self_report", "on_insulin_now", "on_diabetes_pills_now",
     "on_glucose_lowering_meds"}

\* C29: no label leakage in the frozen feature list. The list written at
\* split time holds neither the label, the subject key, an evidence flag
\* nor a raw label-definition field, and holds every other column of the
\* table in the table's column order; the list training writes next to
\* the scorer is that list unchanged.
C29_NoLabelLeakage ==
    /\ pc06 \in {"split", "trained"} =>
        /\ \A i \in DOMAIN split_feature_list :
              split_feature_list[i] \notin LabelDefining
        /\ split_feature_list =
              SelectSeq(columns06, LAMBDA c : c \notin LabelDefining)
    /\ pc06 = "trained" => model_feature_list = split_feature_list

\* a labeled table with the subject key, a self-report and the age
C29_Witness ==
    /\ pc06 = "trained"
    /\ SubSeq(columns06, 1, 3) = <<"SEQN", "diabetes_self_report", "age_years">>
    /\ model_feature_list =
          <<"age_years", "bmi", "tg_to_hdl_ratio", "non_hdl_chol_mg_dL">>

(***************************************************************************)
(* Persistence: api/v1/routes.py (predict_and_store_t2d, create_user),     *)
(* api/services/persistence.py, db/models.py                               *)
(***************************************************************************)
\* an optional text: None, or a str given by its characters
None == [present |-> FALSE, value |-> <<>>]

Str(chars) == [present |-> TRUE, value |-> chars]

\* Python truthiness of `str | None`: None and "" are falsy
Truthy(t) == t.present /\ t.value # <<>>

RECURSIVE lstrip(_)
lstrip(cs) == IF cs # <<>> /\ Head(cs) = " " THEN lstrip(Tail(cs)) ELSE cs

RECURSIVE rstrip(_)
rstrip(cs) ==
    IF cs # <<>> /\ cs[Len(cs)] = " "
    THEN rstrip(SubSeq(cs, 1, Len(cs) - 1)) ELSE cs

\* str.strip()
strip(cs) == rstrip(lstrip(cs))

\* variant: HDL declared optional
RequiredFields_hdl_optional ==
    {"age_years", "sex_at_birth", "waist_circumference_cm", "systolic_bp_mmHg",
     "diastolic_bp_mmHg", "fasting_glucose_mg_dL", "triglycerides_mg_dL"}

\* the fields of PredictRequestT2D declared without a default
RequiredFields ==
    {"age_years", "sex_at_birth", "waist_circumference_cm", "systolic_bp_mmHg",
     "diastolic_bp_mmHg", "fasting_glucose_mg_dL", "triglycerides_mg_dL",
     "hdl_mg_dL"}

\* Field(ge=..., le=...) of the numeric fields
FieldRange ==
    [age_years |-> <<0, 120>>, height_cm |-> <<50, 250>>,
     weight_kg |-> <<20, 400>>, bmi |-> <<10, 80>>,
     waist_circumference_cm |-> <<30, 200>>, systolic_bp_mmHg |-> <<60, 260>>,
     diastolic_bp_mmHg |-> <<30, 160>>, fasting_glucose_mg_dL |-> <<40, 500>>,
     triglycerides_mg_dL |-> <<20, 2000>>, hdl_mg_dL |-> <<5, 200>>,
     total_cholesterol_mg_dL |-> <<50, 1000>>, hba1c_percent |-> <<3, 20>>]

SexAtBirth == {<<"male">>, <<"female">>, <<"unknown">>}

\* pydantic validation of a JSON body against PredictRequestT2D: a required
\* field is in the body and not null, a supplied value is of its type and
\* within its range
Validates(raw) ==
    /\ \A f \in RequiredFields : raw[f] # ABSENT /\ raw[f] # NA
    /\ \A f \in DOMAIN FieldRange :
          (raw[f] # ABSENT /\ raw[f] # NA) =>
              /\ Geq(raw[f], FieldRange[f][1], 1)
              /\ ~Lt(Num(FieldRange[f][2]), raw[f][1], raw[f][2])
    /\ raw.sex_at_birth \in SexAtBirth \cup {ABSENT, NA}

\* req.model_dump(): a field the body lacks has its default, None
model_dump(raw) == [f \in DOMAIN raw |-> IF raw[f] = ABSENT THEN NA ELSE raw[f]]

MaxUserIdLen == 100

NoCall ==
    [kind |-> "", pc |-> "idle", x_user_id |-> None, raw |-> <<>>,
     payload |-> <<>>, pred_label |-> "", probs |-> <<>>,
     user_id |-> <<>>, run_id |-> 0, error |-> "", response |-> NoResponse]

\* validation_exception_handler
ValidationError == [NoResponse EXCEPT !.status = 422]

\* the exception leaves the handler and reaches unhandled_exception_handler
Unhandled(call, exc) ==
    [call EXCEPT !.pc = "done", !.error = exc, !.response = ServerError]

\* POST /v1/predict-and-store/t2d arrives: the body and the header are
\* validated before the handler is called
PredictAndStoreRequest(c, raw, h) ==
    /\ pcApp = "serving"
    /\ calls[c].pc = "idle"
    /\ calls' = [calls EXCEPT ![c] =
          IF ~Validates(raw)
          THEN [@ EXCEPT !.kind = "predict", !.pc = "done", !.raw = raw,
                         !.x_user_id = h, !.response = ValidationError]
          ELSE [@ EXCEPT !.kind = "predict", !.pc = "validated", !.raw = raw,
                         !.x_user_id = h]]
    /\ UNCHANGED <<db_created, users, runs, serveVars, splitVars,
                   sentVars, stdVars, joinVars, featVars, deriveVars, rowVars>>

\* predict_and_store_t2d, lines 146-164: the inference of predict_t2d
Score(c) ==
    /\ calls[c].kind = "predict" /\ calls[c].pc = "validated"
    /\ LET res == get(bundles, "t2d")
           bundle == res.bundle
           derived == compute_derived_fields(model_dump(calls[c].raw))
           Xrow == build_X(bundle.feature_list, ItemsOf(derived))
           proba == bundle.model.table[ScoreKey(Xrow)]
           scored == [calls[c] EXCEPT
                        !.pc = IF Truthy(calls[c].x_user_id)
                               THEN "user" ELSE "store",
                        !.payload = derived,
                        !.probs = proba,
                        !.pred_label = labels[argmax(proba)]]
       IN  IF res.raised
           THEN calls' = [calls EXCEPT ![c] =
                            [@ EXCEPT !.pc = "done", !.error = "KeyError",
                                      !.response = NotFound(res.error)]]
           ELSE IF bundle.feature_list = bundle.model.trained_on
           THEN calls' = [calls EXCEPT ![c] = scored]
           ELSE \/ calls' = [calls EXCEPT ![c] = scored]
                \/ calls' = [calls EXCEPT ![c] = Unhandled(@, "ValueError")]
    /\ UNCHANGED <<db_created, users, runs, serveVars, splitVars,
                   sentVars, stdVars, joinVars, featVars, deriveVars, rowVars>>

\* get_or_create_user, lines 33-35: the SELECT, answered from the rows
\* committed so far
GetOrCreateUserQuery(c) ==
    /\ calls[c].kind = "predict" /\ calls[c].pc = "user"
    /\ calls' = [calls EXCEPT ![c] =
          IF ~db_created THEN Unhandled(@, "OperationalError")
          ELSE IF calls[c].x_user_id.value \in users
          THEN [@ EXCEPT !.pc = "store"]
          ELSE [@ EXCEPT !.pc = "user_insert"]]
    /\ UNCHANGED <<db_created, users, runs, serveVars, splitVars,
                   sentVars, stdVars, joinVars, featVars, deriveVars, rowVars>>

\* get_or_create_user, lines 37-41: the INSERT of a primary key that is
\* already in the table raises IntegrityError
GetOrCreateUserCommit(c) ==
    /\ calls[c].kind = "predict" /\ calls[c].pc = "user_insert"
    /\ IF calls[c].x_user_id.value \in users
       THEN /\ calls' = [calls EXCEPT ![c] = Unhandled(@, "IntegrityError")]
            /\ UNCHANGED users
       ELSE /\ users' = users \cup {calls[c].x_user_id.value}
            /\ calls' = [calls EXCEPT ![c] = [@ EXCEPT !.pc = "store"]]
    /\ UNCHANGED <<db_created, runs, serveVars, splitVars,
                   sentVars, stdVars, joinVars, featVars, deriveVars, rowVars>>

\* store_prediction_run and lines 183-208: the run is inserted with the
\* header as its user_id and the answer carries its id
StorePredictionRun(c) ==
    /\ calls[c].kind = "predict" /\ calls[c].pc = "store"
    /\ IF ~db_created
       THEN /\ calls' = [calls EXCEPT ![c] = Unhandled(@, "OperationalError")]
            /\ UNCHANGED runs
       ELSE /\ runs' = Append(runs,
                    [user_id |-> calls[c].x_user_id, disease |-> "t2d",
                     predicted_label |-> calls[c].pred_label,
                     probabilities |-> calls[c].probs,
                     request_payload |-> calls[c].payload])
            /\ calls' = [calls EXCEPT ![c] =
                  [@ EXCEPT !.pc = "done", !.run_id = Len(runs) + 1,
                            !.response =
                               PredictResponse(Lookup(bundles, "t2d"),
                                               calls[c].probs,
                                               model_dump(calls[c].raw))]]
    /\ UNCHANGED <<db_created, users, serveVars, splitVars,
                   sentVars, stdVars, joinVars, featVars, deriveVars, rowVars>>

\* POST /v1/users, lines 255-258: UserCreate is validated, the id stripped
\* and looked up
CreateUser(c, chars) ==
    /\ pcApp = "serving"
    /\ calls[c].pc = "idle"
    /\ LET user_id == strip(chars)
           call == [calls[c] EXCEPT !.kind = "create", !.raw = chars]
       IN  calls' = [calls EXCEPT ![c] =
             IF Len(chars) < 1 \/ Len(chars) > MaxUserIdLen
             THEN [call EXCEPT !.pc = "done", !.response = ValidationError]
             ELSE IF ~db_created
             THEN Unhandled([call EXCEPT !.user_id = user_id],
                            "OperationalError")
             ELSE IF user_id \in users
             THEN [call EXCEPT !.pc = "done", !.user_id = user_id,
                               !.response = [NoResponse EXCEPT !.status = 200]]
             ELSE [call EXCEPT !.pc = "create_insert", !.user_id = user_id]]
    /\ UNCHANGED <<db_created, users, runs, serveVars, splitVars,
                   sentVars, stdVars, joinVars, featVars, deriveVars, rowVars>>

\* create_user, lines 260-264
CreateUserCommit(c) ==
    /\ calls[c].kind = "create" /\ calls[c].pc = "create_insert"
    /\ IF calls[c].user_id \in users
       THEN /\ calls' = [calls EXCEPT ![c] = Unhandled(@, "IntegrityError")]
            /\ UNCHANGED users
       ELSE /\ users' = users \cup {calls[c].user_id}
            /\ calls' = [calls EXCEPT ![c] =
                  [@ EXCEPT !.pc = "done",
                            !.response = [NoResponse EXCEPT !.status = 200]]]
    /\ UNCHANGED <<db_created, runs, serveVars, splitVars,
                   sentVars, stdVars, joinVars, featVars, deriveVars, rowVars>>

(***************************************************************************)
(* Inputs of the persistence checks                                        *)
(***************************************************************************)
CallIds == {"c1", "c2"}

\* the model directory of a trained t2d scorer
StoreArtifact ==
    [readable |-> TRUE,
     model |-> [trained_on |-> TrainedOn,
                table |-> [k \in 0..1 |->
                            IF k = 0 THEN <<<<1, 5>>, <<3, 5>>, <<1, 5>>>>
                            ELSE <<<<0, 1>>, <<1, 2>>, <<1, 2>>>>]],
     feature_list |-> TrainedOn,
     importance |-> [exists |-> TRUE,
                     rows |-> <<[feature |-> "bmi", importance_mean |-> 5]>>]]

\* a JSON body with every required field and a weight
FullBody ==
    [f \in {RequestFields[i] : i \in 1..Len(RequestFields)} |->
        IF f = "weight_kg" THEN Num(80)
        ELSE IF BaseRow[f] = NA THEN ABSENT ELSE BaseRow[f]]

\* JSON bodies: complete ones (with and without a height), bodies lacking
\* one field, one with a null age and one with an HDL of 0
RawBodies ==
    {FullBody, [FullBody EXCEPT !.height_cm = Num(200)],
     [FullBody EXCEPT !.age_years = NA], [FullBody EXCEPT !.hdl_mg_dL = Num(0)]}
    \cup {[FullBody EXCEPT ![f] = ABSENT] : f \in DOMAIN FullBody}

\* X-User-ID: not sent, sent empty, sent as "a"
Headers == {None, Str(<<>>), Str(<<"a">>)}

\* user_id of a UserCreate body: "", "a", " a"
UserIdTexts == {<<>>, <<"a">>, <<" ", "a">>}

\* the service is up, with t2d loaded or with nothing configured; the
\* tables were created or create_db.py was never run
InitStore ==
    /\ db_created \in BOOLEAN
    /\ users = {}
    /\ runs = <<>>
    /\ calls = [c \in CallIds |-> NoCall]
    /\ \/ /\ specs = <<"t2d">>
          /\ artifacts = [d \in Diseases |->
                            IF d = "t2d" THEN StoreArtifact ELSE NoArtifact]
          /\ bundles = <<[disease |-> "t2d",
                          bundle |-> ModelBundle(StoreArtifact).bundle]>>
       \/ /\ specs = <<>>
          /\ artifacts = [d \in Diseases |-> NoArtifact]
          /\ bundles = <<>>
    /\ pcApp = "serving"
    /\ reqs = [r \in RequestIds |-> NoRequest]
    /\ lastGet = <<>>
    /\ IdleSent /\ IdleStd /\ IdleJoin /\ IdleFeat /\ IdleDerive /\ IdleRow
    /\ IdleSplit

NextStore ==
    \/ \E c \in CallIds, raw \in RawBodies, h \in Headers :
          PredictAndStoreRequest(c, raw, h)
    \/ \E c \in CallIds : Score(c)
    \/ \E c \in CallIds : GetOrCreateUserQuery(c)
    \/ \E c \in CallIds : GetOrCreateUserCommit(c)
    \/ \E c \in CallIds : StorePredictionRun(c)
    \/ \E c \in CallIds, chars \in UserIdTexts : CreateUser(c, chars)
    \/ \E c \in CallIds : CreateUserCommit(c)

SpecStore == InitStore /\ [][NextStore]_vars

\* C22: persistence does not fail the prediction. A predict-and-store call
\* that has computed its label and probabilities ends with the answer 200
\* carrying that label and those probabilities, whatever happens while the
\* user is created or the run is stored.
C22_PersistenceDoesNotFail ==
    \A c \in CallIds :
        (calls[c].kind = "predict" /\ calls[c].pc = "done"
            /\ calls[c].probs # <<>>) =>
                /\ calls[c].response.status = 200
                /\ calls[c].response.predicted_label = calls[c].pred_label
                /\ calls[c].response.probabilities = calls[c].probs

\* C25: request validation. A prediction request whose body lacks a
\* required field is answered 422 without a derived payload, a score or a
\* stored run, and every stored run holds a payload with all required
\* fields.
C25_RequestValidation ==
    /\ \A c \in CallIds :
        (calls[c].kind = "predict"
            /\ \E f \in {"age_years", "sex_at_birth", "waist_circumference_cm",
                          "systolic_bp_mmHg", "diastolic_bp_mmHg",
                          "fasting_glucose_mg_dL", "triglycerides_mg_dL",
                          "hdl_mg_dL"} : calls[c].raw[f] = ABSENT) =>
                /\ calls[c].pc = "done"
                /\ calls[c].response.status = 422
                /\ calls[c].payload = <<>>
                /\ calls[c].probs = <<>> /\ calls[c].pred_label = ""
                /\ calls[c].run_id = 0
    /\ Len(runs) = Cardinality({c \in CallIds : calls[c].run_id # 0})
    /\ \A c \in CallIds :
        calls[c].run_id # 0 =>
            runs[calls[c].run_id].request_payload =
                compute_derived_fields(model_dump(calls[c].raw))

\* a body without HDL is rejected while the other call's run is stored
C25_Witness ==
    /\ calls["c1"].kind = "predict" /\ calls["c1"].pc = "done"
    /\ calls["c1"].raw = [FullBody EXCEPT !.hdl_mg_dL = ABSENT]
    /\ calls["c1"].response.status = 422
    /\ calls["c2"].response.status = 200
    /\ Len(runs) = 1

\* C27: run-to-user integrity. Every stored run whose user_id is not null
\* names a row of users, and a run stored by a call without the X-User-ID
\* header has a null user_id.
C27_RunToUserIntegrity ==
    /\ \A i \in 1..Len(runs) :
          runs[i].user_id.present => runs[i].user_id.value \in users
    /\ \A c \in CallIds :
          (calls[c].run_id # 0 /\ ~calls[c].x_user_id.present) =>
              ~runs[calls[c].run_id].user_id.present

\* the user id a call carries: a non-empty header, a valid create payload
Carries(c, id) ==
    \/ /\ calls[c].kind = "predict" /\ calls[c].response.status # 422
       /\ Truthy(calls[c].x_user_id) /\ calls[c].x_user_id.value = id
    \/ /\ calls[c].kind = "create" /\ calls[c].response.status # 422
       /\ calls[c].user_id = id

\* C28: concurrent user creation. With the tables created and t2d loaded,
\* calls that carry the same user id, unseen before them, all complete
\* with 200 under every interleaving, none with the IntegrityError of a
\* second insert, and exactly one row of users has the id afterwards.
C28_ConcurrentUserCreation ==
    (db_created /\ Registered("t2d")) =>
        \A c \in CallIds :
            (calls[c].pc = "done" /\ Carries(c, <<"a">>)) =>
                /\ calls[c].error # "IntegrityError"
                /\ calls[c].response.status = 200
                /\ <<"a">> \in users

====
